---- MODULE Spec2Model ----
\* Model of the paperless post-processing scripts: the tag resolver of
\* utils/api_helpers.py, the correspondent resolver of postprocess.py, the
\* duplicate merge of merge_duplicates.py, the retrying classifier call of
\* ocr_tax_relief_checker.py, add_tag_to_document and the list fetchers of the
\* scripts.  The document-management API is the environment:
\* its collections are state, and every HTTP request is a step whose status is
\* chosen nondeterministically.
EXTENDS Integers, Sequences, FiniteSets, TLC

\* ------------------------------------------------------------------ bounds
\* Items per result page of the API's list endpoints.
PageSize == 2
\* Largest number of tags the API holds initially.
MaxInitTags == 3
\* How many tags other clients may create while the resolver runs.
MaxTagRacers == 1
\* Largest number of custom fields the API holds initially.
MaxInitFields == 3
\* How many custom fields other clients may create while the resolver runs.
MaxFieldRacers == 1
\* Largest number of correspondents the API holds when postprocess.main starts.
MaxInitCorrs == 3
\* How many correspondents other clients may create while main runs.
MaxCorrRacers == 1
\* Largest number of correspondents the API holds when merge_duplicates starts.
MaxMergeCorrs == 4
\* The number of documents the API holds when merge_duplicates starts.
MaxMergeDocs == 2
\* Largest correspondent collection tried with its ids in every list order; a
\* larger one is tried with its ids ascending and descending.
MaxPermuted == 3

\* The jitter random.uniform(0, 1) is drawn in steps of 1/JitterScale second.
JitterScale == 2
\* Largest Retry-After value, in seconds, a rate-limit error carries.
MaxRetryAfter == 1
\* Largest tag id the document under analysis carries initially.
MaxDocTags == 2
\* Largest number of resources a list endpoint holds when a fetcher is called.
MaxFetchItems == 5
\* Largest number of entries of the dict clean_fields is given.
MaxCleanFields == 2
\* Largest number of custom fields the API holds when the mapping is populated.
MaxMapApiFields == 2
\* Largest number of entries of the field mapping.
MaxMappingEntries == 2
\* Largest number of tags the API holds when postprocess_all starts.
MaxBatchTags == 2
\* Largest number of documents the API holds when postprocess_all starts.
MaxBatchDocs == 2

\* ------------------------------------------------------------------ program constants
max_retries == 5
backoff_factor == 2

\* ------------------------------------------------------------------ strings
\* A string is a sequence of one-character strings.
LowerToUpper ==
    ("a" :> "A") @@ ("b" :> "B") @@ ("c" :> "C") @@ ("d" :> "D") @@ ("e" :> "E")
    @@ ("f" :> "F") @@ ("g" :> "G") @@ ("h" :> "H") @@ ("i" :> "I") @@ ("k" :> "K")
    @@ ("l" :> "L") @@ ("m" :> "M") @@ ("o" :> "O") @@ ("t" :> "T") @@ ("x" :> "X")
    @@ ("j" :> "J") @@ ("n" :> "N") @@ ("p" :> "P") @@ ("r" :> "R") @@ ("s" :> "S")
    @@ ("u" :> "U") @@ ("v" :> "V") @@ ("y" :> "Y")
UpperToLower ==
    ("A" :> "a") @@ ("B" :> "b") @@ ("C" :> "c") @@ ("D" :> "d") @@ ("E" :> "e")
    @@ ("F" :> "f") @@ ("G" :> "g") @@ ("H" :> "h") @@ ("I" :> "i") @@ ("K" :> "k")
    @@ ("L" :> "l") @@ ("M" :> "m") @@ ("O" :> "o") @@ ("T" :> "t") @@ ("X" :> "x")
    @@ ("J" :> "j") @@ ("N" :> "n") @@ ("P" :> "p") @@ ("R" :> "r") @@ ("S" :> "s")
    @@ ("U" :> "u") @@ ("V" :> "v") @@ ("Y" :> "y")

IsUpperChar(c) == c \in DOMAIN UpperToLower
IsLowerChar(c) == c \in DOMAIN LowerToUpper
IsCased(c) == IsUpperChar(c) \/ IsLowerChar(c)
IsSpace(c) == c = " "

ToLowerChar(c) == IF IsUpperChar(c) THEN UpperToLower[c] ELSE c
ToUpperChar(c) == IF IsLowerChar(c) THEN LowerToUpper[c] ELSE c

\* str.lower()
Lower(s) == [i \in 1..Len(s) |-> ToLowerChar(s[i])]

\* str.strip(): drop the leading and the trailing whitespace.
RECURSIVE LStrip(_)
LStrip(s) == IF s # <<>> /\ IsSpace(Head(s)) THEN LStrip(Tail(s)) ELSE s
RECURSIVE RStrip(_)
RStrip(s) ==
    IF s # <<>> /\ IsSpace(s[Len(s)]) THEN RStrip(SubSeq(s, 1, Len(s) - 1)) ELSE s
Strip(s) == RStrip(LStrip(s))

\* str.title(): a cased character is upper-cased when it follows an uncased
\* character (or starts the string) and lower-cased when it follows a cased one;
\* every other character is kept.
Title(s) ==
    [i \in 1..Len(s) |->
        IF ~IsCased(s[i]) THEN s[i]
        ELSE IF i > 1 /\ IsCased(s[i - 1]) THEN ToLowerChar(s[i])
        ELSE ToUpperChar(s[i])]

\* ------------------------------------------------------------------ dicts
\* A Python dict is a sequence of <<key, value>> pairs with distinct keys, in
\* insertion order; assigning to a present key keeps its position.
DictHas(d, k) == \E i \in 1..Len(d) : d[i][1] = k
DictGet(d, k) == d[CHOOSE i \in 1..Len(d) : d[i][1] = k][2]
DictPut(d, k, v) ==
    IF DictHas(d, k)
    THEN [i \in 1..Len(d) |-> IF d[i][1] = k THEN <<k, v>> ELSE d[i]]
    ELSE Append(d, <<k, v>>)
RECURSIVE DictFrom(_, _)
\* the dict a comprehension builds from the pairs, in order
DictFrom(pairs, acc) ==
    IF pairs = <<>> THEN acc
    ELSE DictFrom(Tail(pairs), DictPut(acc, Head(pairs)[1], Head(pairs)[2]))

Min(a, b) == IF a < b THEN a ELSE b
\* the sequences of length n over S
SeqsOfLen(S, n) == [1..n -> S]
\* the sequences of length 0..n over S
SeqsUpTo(S, n) == UNION { SeqsOfLen(S, k) : k \in 0..n }

\* ------------------------------------------------------------------ API
\* The first result page of a list endpoint (a GET without a page parameter).
FirstPage(coll) == SubSeq(coll, 1, Min(PageSize, Len(coll)))
\* Every page of a list endpoint, as a client that follows "next" sees them.
AllPages(coll) == coll
\* The id the API gives the next resource it creates.
NextId(coll) ==
    IF coll = <<>> THEN 1
    ELSE 1 + (CHOOSE m \in { coll[i].id : i \in 1..Len(coll) } :
                 \A j \in 1..Len(coll) : coll[j].id <= m)
\* The API's uniqueness rule compares names trimmed and case-insensitively.
ApiNorm(name) == Lower(Strip(name))
ApiHasName(coll, name) == \E i \in 1..Len(coll) : ApiNorm(coll[i].name) = ApiNorm(name)

\* ------------------------------------------------------------------ state
VARIABLES
    \* --- tag resolver (utils/api_helpers.py)
    tags,          \* the API's tags, in list order: records [id, name]
    tagsAtStart,   \* the API's tags when the first call started
    callNames,     \* the tag names of the two sequential calls
    callIdx,       \* the call in progress
    tpc,           \* "fetch", "create" or "done"
    tagOutcome,    \* per call: "pending", "returned" or "raised"
    tagResult,     \* per call: the id returned (0: none)
    tagPosts,      \* per call: POST /api/tags/ requests issued
    tagReqFail,    \* per call: some request returned a non-success status
    tagPostStatus, \* per call: "none", "created", "unique" or "error"
    tagGetFail,    \* per call: the GET of the tag list failed
    tagRacerIds    \* the ids of the tags other clients created since Init

tagVars ==
    <<tags, tagsAtStart, callNames, callIdx, tpc, tagOutcome, tagResult, tagPosts, tagReqFail,
      tagPostStatus, tagGetFail, tagRacerIds>>

VARIABLES
    \* --- custom field resolver (utils/api_helpers.py)
    fields,          \* the API's custom fields, in list order: records [id, name]
    fieldsAtStart,   \* the API's custom fields when the call started
    fieldName,       \* the field name ensure_custom_field_exists is called with
    fpc,             \* "idle", "query", "create" or "done"
    fieldOutcome,    \* "pending", "returned" or "raised"
    fieldResult,     \* the id of the field returned (0: none)
    fieldPosts,      \* POST /api/custom_fields/ requests issued
    fieldPostStatus, \* "none", "created", "unique" or "error"
    fieldRacerIds    \* the ids of the fields other clients created since Init

fieldVars ==
    <<fields, fieldsAtStart, fieldName, fpc, fieldOutcome, fieldResult, fieldPosts,
      fieldPostStatus, fieldRacerIds>>

VARIABLES
    \* --- correspondent resolution of postprocess.py (main, create_correspondent)
    corrs,          \* the API's correspondents, in list order: records [id, name]
    cName,          \* the correspondent name the AI response carries
    cpc,            \* "idle", "fetch", "post", "refetch", "use" or "done"
    cSnapshot,      \* main's dict of correspondents, keyed by lower-cased name
    cOutcome,       \* create_correspondent: "pending", "returned", "returnedNone", "raised"
    cResult,        \* the correspondent main holds (NoCorr: None)
    cPosts,         \* POST /api/correspondents/ requests issued
    cPostStatus,    \* "none", "created", "exists", "violates", "badrequest", "error"
    cRefetches,     \* fetch_correspondents calls made by create_correspondent
    cRefetchOk,     \* the re-fetch succeeded
    cMainDeref,     \* main's correspondent["id"]: "none", "ok" or "typeError"
    cRacerIds,      \* the ids of the correspondents other clients created
    cRacerPhase     \* the value of cpc when another client last created one

corrVars ==
    <<corrs, cName, cpc, cSnapshot, cOutcome, cResult, cPosts, cPostStatus,
      cRefetches, cRefetchOk, cMainDeref, cRacerIds, cRacerPhase>>

VARIABLES
    \* --- merge_duplicates.py
    mCorrs,         \* the API's correspondents, in list order: records [id, name]
    mCorrsAtStart,  \* the API's correspondents when the run started
    mDocs,          \* the API's documents: document id -> correspondent id (0: none)
    mDocsAtStart,   \* the API's documents when the run started
    mpos,           \* main's position: [pc, gi, li, di]
    correspondents, \* fetch_all_correspondents: the list accumulated so far
    grouped,        \* main: the groups, in insertion order of their keys
    documents,      \* fetch_documents_by_correspondent: the list accumulated so far
    mLog            \* the HTTP requests issued, in order: [op, id, ok, arg]

mergeVars ==
    <<mCorrs, mCorrsAtStart, mDocs, mDocsAtStart, mpos, correspondents, grouped,
      documents, mLog>>

VARIABLES
    \* --- analyze_document_with_openai (ocr_tax_relief_checker.py)
    rpc,          \* "idle", "load", "call", "tag", "attach" or "done"
    schemaLoaded, \* tax_relief_schema.json was read
    attempt,      \* the loop variable of `for attempt in range(max_retries)`
    rCalls,       \* upstream calls issued
    rOutcomes,    \* the outcome of each upstream call, in order
    rSleeps,      \* the argument of each time.sleep, in order, in 1/JitterScale s
    rHeaders,     \* the Retry-After value of each rate-limit error, in order
    rResult,      \* "pending", "result", "None" or "raised"
    rTagged,      \* the failure tag was attached to the document
    rApiTags,     \* the API's tags, in list order: records [id, name]
    rTagId,       \* tag_id, the result of fetch_or_create_tag (0: not yet)
    rTagPosts,    \* POST /api/tags/ requests issued
    rDocTags,     \* the tag ids of the document under analysis
    rDocPatches,  \* the "tags" payload of each PATCH of the document, in order
    rReqFail,     \* a request of the failure-tag branch failed on the API's side
    rHelperRaised \* the helper of the failure-tag branch that raised ("none": neither)

retryVars ==
    <<rpc, schemaLoaded, attempt, rCalls, rOutcomes, rSleeps, rHeaders, rResult, rTagged,
      rApiTags, rTagId, rTagPosts, rDocTags, rDocPatches, rReqFail, rHelperRaised>>

VARIABLES
    \* --- add_tag_to_document (postprocess.py and utils/api_helpers.py)
    aVariant,        \* "postprocess" or "helpers": the function called
    aDocTags,        \* the tag ids the API holds for the document
    aDocTagsAtStart, \* the tag ids of the document when the first call started
    aTagId,          \* tag_id, the same in both calls
    aCall,           \* the call in progress
    apc,             \* "idle", "get", "patch" or "done"
    aItems,          \* current["tags"], the list the GET of the document returned
    aOutcome,        \* per call: "pending", "returned" or "raised"
    aPatches         \* the PATCH requests issued: [call, items, payload, ok]

addTagVars ==
    <<aVariant, aDocTags, aDocTagsAtStart, aTagId, aCall, apc, aItems, aOutcome, aPatches>>

VARIABLES
    \* --- the list fetchers (merge_duplicates.py, cleanup_correspondents.py,
    \*     postprocess_all.py, utils/api_helpers.py)
    fFetcher,   \* the function called
    fColl,      \* the ids of the resources the endpoint lists, in list order
    fNextUrl,   \* next_url: the position of the first item of the page it names (0: None)
    fResults,   \* the list built so far, then returned
    fRequested, \* the URLs requested, in order
    fFailed,    \* a request returned a non-success status
    fetchPc         \* "idle", "loop", "done" (returned) or "raised"

fetchVars == <<fFetcher, fColl, fNextUrl, fResults, fRequested, fFailed, fetchPc>>

VARIABLES
    \* --- post.clean_fields
    cfFields,   \* fields, the dict to clean: <<key, value>> pairs
    field_meta, \* <<key, data_type>> for the keys field_meta holds
    cleaned,    \* the dict built so far, then returned
    cleanIdx,   \* the position of the next entry of fields
    cleanPc,    \* "idle", "loop" or "done" (returned)
    dateParts   \* the texts the first value was put together from

cleanVars == <<cfFields, field_meta, cleaned, cleanIdx, cleanPc, dateParts>>

VARIABLES
    \* --- ocr_tax_relief_checker.main from populate_field_mapping_with_ids on
    mapApi,        \* the API's custom fields, in list order: records [id, name]
    mapApiAtStart, \* the API's custom fields when main started
    field_mapping, \* the mapping's entries, in order: records [key, name, id] (id 0: no "id")
    matchedIds,    \* per entry, the id populate_field_mapping_with_ids gave it (0: none)
    json_data,     \* the keys of the classification result, in order
    mapIdx,        \* ensure_custom_fields: the position of the next entry
    mapPosts,      \* the POST /api/custom_fields/ requests issued: [entry, name, status]
    custom_fields, \* the custom_fields payload PATCHed to the document (<<>>: none)
    mapRaised,     \* "none", or the exception that ended main
    mapPc          \* "idle", "populate", "ensure", "update", "done", "exited" or "raised"

mappingVars ==
    <<mapApi, mapApiAtStart, field_mapping, matchedIds, json_data, mapIdx, mapPosts,
      custom_fields, mapRaised, mapPc>>

VARIABLES
    \* --- postprocess_all.main and the postprocess.main it calls per document
    bTags,      \* the API's tags, in list order: records [id, name]
    bCorrIds,   \* the ids of the API's correspondents
    bDocs,      \* the API's documents, in list order: records [id, tags, correspondent]
    bDocsAtStart, \* the API's documents when the run started
    bInputs,    \* per document: has it OCR content, and the AI response it gets
    bTagKind,   \* how the API renders a tag of a document: "id" or "dict"
    documentsFetched, \* documents, the list fetch_all_documents returned
    gpt_tag_id, \* the id of the "gpt-correspondent" tag as main found it (0: not yet)
    bIdx,       \* the position of the next document of the loop
    bCalls,     \* the document ids process_document was called with, in order
    bReturned,  \* the document ids process_document returned normally for
    bEnd,       \* per call of process_document, how it ended
    bPc         \* "idle", "start", "loop", "done", "exit0", "exit1" or "raised"

batchVars ==
    <<bTags, bCorrIds, bDocs, bDocsAtStart, bInputs, bTagKind, documentsFetched,
      gpt_tag_id, bIdx, bCalls, bReturned, bEnd, bPc>>

vars == <<tagVars, fieldVars, corrVars, mergeVars, retryVars, addTagVars, fetchVars, cleanVars, mappingVars, batchVars>>

\* What a step of one script leaves alone: the state of the others.
notTagVars == <<fieldVars, corrVars, mergeVars, retryVars, addTagVars, fetchVars, cleanVars, mappingVars, batchVars>>
notFieldVars == <<tagVars, corrVars, mergeVars, retryVars, addTagVars, fetchVars, cleanVars, mappingVars, batchVars>>
notCorrVars == <<tagVars, fieldVars, mergeVars, retryVars, addTagVars, fetchVars, cleanVars, mappingVars, batchVars>>
notMergeVars == <<tagVars, fieldVars, corrVars, retryVars, addTagVars, fetchVars, cleanVars, mappingVars, batchVars>>
notRetryVars == <<tagVars, fieldVars, corrVars, mergeVars, addTagVars, fetchVars, cleanVars, mappingVars, batchVars>>
notAddTagVars == <<tagVars, fieldVars, corrVars, mergeVars, retryVars, fetchVars, cleanVars, mappingVars, batchVars>>
notFetchVars == <<tagVars, fieldVars, corrVars, mergeVars, retryVars, addTagVars, cleanVars, mappingVars, batchVars>>
notCleanVars == <<tagVars, fieldVars, corrVars, mergeVars, retryVars, addTagVars, fetchVars, mappingVars, batchVars>>
notMappingVars == <<tagVars, fieldVars, corrVars, mergeVars, retryVars, addTagVars, fetchVars, cleanVars, batchVars>>
notBatchVars == <<tagVars, fieldVars, corrVars, mergeVars, retryVars, addTagVars, fetchVars, cleanVars, mappingVars>>

\* ------------------------------------------------------------------ tags
TagName == <<"T", "a", "g">>
TagNameLower == <<"t", "a", "g">>
TagNamePadded == <<" ", "T", "a", "g", " ">>
OtherTagName == <<"x">>
TagNamePool == { TagName, TagNameLower, TagNamePadded, OtherTagName }

\* The tag collections the API may hold initially: ids 1..n in list order.
InitTagColls ==
    { [i \in 1..Len(ns) |-> [id |-> i, name |-> ns[i]]] :
        ns \in SeqsUpTo(TagNamePool, MaxInitTags) }

\* fetch_tags on a successful response: {tag["name"]: tag["id"]} over "results".
FetchTagsDict(coll) ==
    DictFrom([i \in 1..Len(FirstPage(coll)) |->
                 <<FirstPage(coll)[i].name, FirstPage(coll)[i].id>>], <<>>)

\* fetch_or_create_tag: the key a tag name is compared under.
NormTagName(name) == Strip(Lower(name))

\* fetch_or_create_tag: normalized_tags
NormalizedTags(d) ==
    DictFrom([i \in 1..Len(d) |-> <<NormTagName(d[i][1]), d[i][2]>>], <<>>)

\* normalized_tags.get(tag_name.lower().strip()); 0 stands for None
LookupTag(d, name) ==
    IF DictHas(NormalizedTags(d), NormTagName(name))
    THEN DictGet(NormalizedTags(d), NormTagName(name))
    ELSE 0

\* The tag resolver is not part of the run.
IdleTags ==
    /\ tags = <<>>
    /\ tagsAtStart = <<>>
    /\ callNames = <<>>
    /\ callIdx = 0
    /\ tpc = "idle"
    /\ tagOutcome = <<>>
    /\ tagResult = <<>>
    /\ tagPosts = <<>>
    /\ tagReqFail = <<>>
    /\ tagPostStatus = <<>>
    /\ tagGetFail = <<>>
    /\ tagRacerIds = {}

InitTags ==
    /\ tags \in InitTagColls
    /\ tagsAtStart = tags
    /\ callNames \in SeqsOfLen(TagNamePool, 2)
    /\ callIdx = 1
    /\ tpc = "fetch"
    /\ tagOutcome = [i \in 1..2 |-> "pending"]
    /\ tagResult = [i \in 1..2 |-> 0]
    /\ tagPosts = [i \in 1..2 |-> 0]
    /\ tagReqFail = [i \in 1..2 |-> FALSE]
    /\ tagPostStatus = [i \in 1..2 |-> "none"]
    /\ tagGetFail = [i \in 1..2 |-> FALSE]
    /\ tagRacerIds = {}

\* The call in progress ends; the next call, if any, starts.
EndTagCall(outcome, id) ==
    /\ tagOutcome' = [tagOutcome EXCEPT ![callIdx] = outcome]
    /\ tagResult' = [tagResult EXCEPT ![callIdx] = id]
    /\ IF callIdx < 2
       THEN callIdx' = callIdx + 1 /\ tpc' = "fetch"
       ELSE callIdx' = callIdx /\ tpc' = "done"

\* fetch_or_create_tag up to its decision: fetch_tags (one GET, whose failure
\* is logged and turned into an empty dict), then the normalized lookup.
TagFetchStep(ok) ==
    LET d == IF ok THEN FetchTagsDict(tags) ELSE <<>>
        tag_id == LookupTag(d, callNames[callIdx])
    IN  /\ tagReqFail' = [tagReqFail EXCEPT ![callIdx] = @ \/ ~ok]
        /\ tagGetFail' = [tagGetFail EXCEPT ![callIdx] = ~ok]
        /\ IF tag_id # 0
           THEN EndTagCall("returned", tag_id)
           ELSE /\ tpc' = "create"
                /\ UNCHANGED <<callIdx, tagOutcome, tagResult>>
        /\ UNCHANGED <<tags, tagsAtStart, callNames, tagPosts, tagPostStatus, tagRacerIds>>

TagFetch ==
    /\ tpc = "fetch"
    /\ \E ok \in BOOLEAN : TagFetchStep(ok)
    /\ UNCHANGED notTagVars

\* create_tag and the rest of fetch_or_create_tag: one POST; an HTTP error
\* makes create_tag return None, and fetch_or_create_tag then raises.
TagCreateStep(status) ==
    /\ tagPosts' = [tagPosts EXCEPT ![callIdx] = @ + 1]
    /\ tagPostStatus' = [tagPostStatus EXCEPT ![callIdx] = status]
    /\ tagReqFail' = [tagReqFail EXCEPT ![callIdx] = @ \/ status # "created"]
    /\ IF status = "created"
       THEN /\ tags' = Append(tags, [id |-> NextId(tags), name |-> callNames[callIdx]])
            /\ EndTagCall("returned", NextId(tags))
       ELSE /\ tags' = tags
            /\ EndTagCall("raised", 0)
    /\ UNCHANGED <<tagsAtStart, callNames, tagGetFail, tagRacerIds>>

\* The statuses the API may answer a POST of the name with: a uniqueness
\* violation needs a tag of that name; names are unique per owner only, so a
\* name another owner holds may also be accepted.
TagPostStatuses(name) ==
    {"created", "error"} \cup (IF ApiHasName(tags, name) THEN {"unique"} ELSE {})

TagCreate ==
    /\ tpc = "create"
    /\ \E status \in TagPostStatuses(callNames[callIdx]) : TagCreateStep(status)
    /\ UNCHANGED notTagVars

\* Another client creates a tag.
RacerCreateTag ==
    /\ tpc \in {"fetch", "create"}
    /\ Cardinality(tagRacerIds) < MaxTagRacers
    /\ \E n \in TagNamePool :
         tags' = Append(tags, [id |-> NextId(tags), name |-> n])
    /\ tagRacerIds' = tagRacerIds \cup {NextId(tags)}
    /\ UNCHANGED <<tagsAtStart, callNames, callIdx, tpc, tagOutcome, tagResult, tagPosts,
                   tagReqFail, tagPostStatus, tagGetFail>>
    /\ UNCHANGED notTagVars

\* ------------------------------------------------------------------ custom fields
FieldNameTax == <<"T", "a", "x">>
FieldNameTaxLower == <<"t", "a", "x">>
OtherFieldName == <<"b">>
FieldNamePool == { FieldNameTax, FieldNameTaxLower, OtherFieldName }

InitFieldColls ==
    { [i \in 1..Len(ns) |-> [id |-> i, name |-> ns[i]]] :
        ns \in SeqsUpTo(FieldNamePool, MaxInitFields) }

RECURSIVE SelectSeq2(_, _)
\* the members of the sequence whose name the API's name__iexact filter keeps
SelectSeq2(coll, name) ==
    IF coll = <<>> THEN <<>>
    ELSE IF Lower(Head(coll).name) = Lower(name)
         THEN <<Head(coll)>> \o SelectSeq2(Tail(coll), name)
         ELSE SelectSeq2(Tail(coll), name)

\* GET /api/custom_fields/?name__iexact=<name>: the "results" of the response
FieldQueryResults(coll, name) == FirstPage(SelectSeq2(coll, name))

\* The custom field resolver is not part of the run.
IdleFields ==
    /\ fields = <<>>
    /\ fieldsAtStart = <<>>
    /\ fieldName = <<>>
    /\ fpc = "idle"
    /\ fieldOutcome = "pending"
    /\ fieldResult = 0
    /\ fieldPosts = 0
    /\ fieldPostStatus = "none"
    /\ fieldRacerIds = {}

InitFields ==
    /\ fields \in InitFieldColls
    /\ fieldsAtStart = fields
    /\ fieldName \in FieldNamePool
    /\ fpc = "query"
    /\ fieldOutcome = "pending"
    /\ fieldResult = 0
    /\ fieldPosts = 0
    /\ fieldPostStatus = "none"
    /\ fieldRacerIds = {}

\* ensure_custom_field_exists up to its decision: the name__iexact query; a
\* failed GET raises, a non-empty result returns its first member.
FieldQueryStep(ok) ==
    LET results == FieldQueryResults(fields, fieldName)
    IN  /\ IF ~ok
           THEN fpc' = "done" /\ fieldOutcome' = "raised" /\ fieldResult' = 0
           ELSE IF results # <<>>
           THEN fpc' = "done" /\ fieldOutcome' = "returned"
                /\ fieldResult' = results[1].id
           ELSE fpc' = "create" /\ UNCHANGED <<fieldOutcome, fieldResult>>
        /\ UNCHANGED <<fields, fieldsAtStart, fieldName, fieldPosts, fieldPostStatus,
                       fieldRacerIds>>

FieldQuery ==
    /\ fpc = "query"
    /\ \E ok \in BOOLEAN : FieldQueryStep(ok)
    /\ UNCHANGED notFieldVars

\* ensure_custom_field_exists, the creation: one POST; any failure raises.
FieldCreateStep(status) ==
    /\ fieldPosts' = fieldPosts + 1
    /\ fieldPostStatus' = status
    /\ fpc' = "done"
    /\ IF status = "created"
       THEN /\ fields' = Append(fields, [id |-> NextId(fields), name |-> fieldName])
            /\ fieldOutcome' = "returned"
            /\ fieldResult' = NextId(fields)
       ELSE /\ fields' = fields
            /\ fieldOutcome' = "raised"
            /\ fieldResult' = 0
    /\ UNCHANGED <<fieldsAtStart, fieldName, fieldRacerIds>>

FieldPostStatuses(name) ==
    {"created", "error"} \cup (IF ApiHasName(fields, name) THEN {"unique"} ELSE {})

FieldCreate ==
    /\ fpc = "create"
    /\ \E status \in FieldPostStatuses(fieldName) : FieldCreateStep(status)
    /\ UNCHANGED notFieldVars

\* Another client creates a custom field.
RacerCreateField ==
    /\ fpc \in {"query", "create"}
    /\ Cardinality(fieldRacerIds) < MaxFieldRacers
    /\ \E n \in FieldNamePool :
         fields' = Append(fields, [id |-> NextId(fields), name |-> n])
    /\ fieldRacerIds' = fieldRacerIds \cup {NextId(fields)}
    /\ UNCHANGED <<fieldsAtStart, fieldName, fpc, fieldOutcome, fieldResult,
                   fieldPosts, fieldPostStatus>>
    /\ UNCHANGED notFieldVars

\* ------------------------------------------------------------------ correspondents
NameAcme == <<"A", "c", "m", "e">>
NameAcmeLower == <<"a", "c", "m", "e">>
NameAcmeLowerSp == <<"a", "c", "m", "e", " ">>
NameAcmeUpper == <<"A", "C", "M", "E">>
NameBo == <<"b", "o">>
CorrNamePool == { NameAcme, NameAcmeLower, NameAcmeLowerSp, NameBo }

\* None, where main expects a correspondent
NoCorr == [id |-> 0, name |-> <<>>]

InitCorrColls ==
    { [i \in 1..Len(ns) |-> [id |-> i, name |-> ns[i]]] :
        ns \in SeqsUpTo(CorrNamePool, MaxInitCorrs) }

\* postprocess.fetch_correspondents: every page, keyed by c["name"].lower()
FetchCorrespondents(coll) ==
    DictFrom([i \in 1..Len(AllPages(coll)) |->
                 <<Lower(AllPages(coll)[i].name), AllPages(coll)[i]>>], <<>>)

\* A lookup that forgets to lower-case the name.
CorrLookupExact(d, name) ==
    IF DictHas(d, name) THEN DictGet(d, name) ELSE NoCorr

\* correspondents.get(name.lower())
CorrLookup(d, name) ==
    IF DictHas(d, Lower(name)) THEN DictGet(d, Lower(name)) ELSE NoCorr

\* The main script does not resolve a correspondent in this run.
IdleCorr ==
    /\ corrs = <<>>
    /\ cName = <<>>
    /\ cpc = "idle"
    /\ cSnapshot = <<>>
    /\ cOutcome = "pending"
    /\ cResult = NoCorr
    /\ cPosts = 0
    /\ cPostStatus = "none"
    /\ cRefetches = 0
    /\ cRefetchOk = FALSE
    /\ cMainDeref = "none"
    /\ cRacerIds = {}
    /\ cRacerPhase = "none"

InitCorr ==
    /\ corrs \in InitCorrColls
    /\ cName \in CorrNamePool
    /\ cpc = "fetch"
    /\ cSnapshot = <<>>
    /\ cOutcome = "pending"
    /\ cResult = NoCorr
    /\ cPosts = 0
    /\ cPostStatus = "none"
    /\ cRefetches = 0
    /\ cRefetchOk = FALSE
    /\ cMainDeref = "none"
    /\ cRacerIds = {}
    /\ cRacerPhase = "none"

\* main: fetch_correspondents (a failing page aborts the script), then the
\* lookup of the AI's name; a miss leads to create_correspondent.
MainFetchStep(ok) ==
    LET d == FetchCorrespondents(corrs)
    IN  /\ IF ~ok
           THEN cpc' = "done" /\ UNCHANGED <<cSnapshot, cResult>>
           ELSE /\ cSnapshot' = d
                /\ cResult' = CorrLookup(d, cName)
                /\ cpc' = IF CorrLookup(d, cName) # NoCorr THEN "use" ELSE "post"
        /\ UNCHANGED <<corrs, cName, cOutcome, cPosts, cPostStatus, cRefetches,
                       cRefetchOk, cMainDeref, cRacerIds, cRacerPhase>>

MainFetchCorrespondents ==
    /\ cpc = "fetch"
    /\ \E ok \in BOOLEAN : MainFetchStep(ok)
    /\ UNCHANGED notCorrVars

\* What the API may answer the POST of the name: 201, a 400 whose body reports
\* the duplicate in one of the two wordings (only when a correspondent of
\* that name exists), another 400, or another error status.
CorrPostStatuses(name) ==
    {"created", "badrequest", "error"}
    \cup (IF ApiHasName(corrs, name) THEN {"exists", "violates"} ELSE {})

\* create_correspondent up to the end of its POST: success returns the created
\* correspondent; a 400 whose body reports a duplicate leads to the re-fetch;
\* every other failure is re-raised.
CorrPostStep(status) ==
    /\ cPosts' = cPosts + 1
    /\ cPostStatus' = status
    /\ IF status = "created"
       THEN /\ corrs' = Append(corrs, [id |-> NextId(corrs), name |-> cName])
            /\ cResult' = [id |-> NextId(corrs), name |-> cName]
            /\ cOutcome' = "returned"
            /\ cpc' = "use"
       ELSE IF status \in {"exists", "violates"}
       THEN /\ cpc' = "refetch"
            /\ UNCHANGED <<corrs, cResult, cOutcome>>
       ELSE /\ cpc' = "done"
            /\ cOutcome' = "raised"
            /\ UNCHANGED <<corrs, cResult>>
    /\ UNCHANGED <<cName, cSnapshot, cRefetches, cRefetchOk, cMainDeref, cRacerIds,
                   cRacerPhase>>

CreateCorrespondentPost ==
    /\ cpc = "post"
    /\ \E status \in CorrPostStatuses(cName) : CorrPostStep(status)
    /\ UNCHANGED notCorrVars

\* create_correspondent, the recovery: one fetch_correspondents (whose failure
\* propagates) and the lookup.  After "already exists" the lookup's value is
\* returned as it is; after the unique-constraint message a miss re-raises.
CorrRefetchStep(ok) ==
    LET found == CorrLookup(FetchCorrespondents(corrs), cName)
    IN  /\ cRefetches' = cRefetches + 1
        /\ cRefetchOk' = ok
        /\ IF ~ok
           THEN cpc' = "done" /\ cOutcome' = "raised" /\ cResult' = cResult
           ELSE IF found # NoCorr
           THEN cpc' = "use" /\ cOutcome' = "returned" /\ cResult' = found
           ELSE IF cPostStatus = "exists"
           THEN cpc' = "use" /\ cOutcome' = "returnedNone" /\ cResult' = NoCorr
           ELSE cpc' = "done" /\ cOutcome' = "raised" /\ cResult' = cResult
        /\ UNCHANGED <<corrs, cName, cSnapshot, cPosts, cPostStatus, cMainDeref,
                       cRacerIds, cRacerPhase>>

CreateCorrespondentRefetch ==
    /\ cpc = "refetch"
    /\ \E ok \in BOOLEAN : CorrRefetchStep(ok)
    /\ UNCHANGED notCorrVars

\* main: current_correspondent_id != correspondent["id"], which subscripts
\* whatever the lookup or create_correspondent gave.
MainUseCorrespondent ==
    /\ cpc = "use"
    /\ cpc' = "done"
    /\ cMainDeref' = IF cResult = NoCorr THEN "typeError" ELSE "ok"
    /\ UNCHANGED <<corrs, cName, cSnapshot, cOutcome, cResult, cPosts, cPostStatus,
                   cRefetches, cRefetchOk, cRacerIds, cRacerPhase>>
    /\ UNCHANGED notCorrVars

\* Another client creates a correspondent.
RacerCreateCorr ==
    /\ cpc \in {"fetch", "post", "refetch"}
    /\ Cardinality(cRacerIds) < MaxCorrRacers
    /\ \E n \in CorrNamePool :
         corrs' = Append(corrs, [id |-> NextId(corrs), name |-> n])
    /\ cRacerIds' = cRacerIds \cup {NextId(corrs)}
    /\ cRacerPhase' = cpc
    /\ UNCHANGED <<cName, cpc, cSnapshot, cOutcome, cResult, cPosts, cPostStatus,
                   cRefetches, cRefetchOk, cMainDeref>>
    /\ UNCHANGED notCorrVars

\* ------------------------------------------------------------------ merge_duplicates
MergeNamePool == { NameAcme, NameAcmeLowerSp, NameAcmeUpper, NameBo }

\* The permutations of 1..n: the ids of the correspondents in list order.
Perms(n) == { f \in [1..n -> 1..n] : \A i, j \in 1..n : i # j => f[i] # f[j] }

IdOrders(n) ==
    IF n <= MaxPermuted THEN Perms(n)
    ELSE { [i \in 1..n |-> i], [i \in 1..n |-> n + 1 - i] }

\* The i-th smallest correspondent id: 2, 5, 9, 14, ...
IdAt(i) == (i * (i + 3)) \div 2

InitMergeColls ==
    UNION { { [i \in 1..n |-> [id |-> IdAt(ids[i]), name |-> ns[i]]] :
                ids \in IdOrders(n), ns \in SeqsOfLen(MergeNamePool, n) } :
            n \in 0..MaxMergeCorrs }

\* The page of a list endpoint that follows `have` items, and whether the
\* response carries a "next" pointer.
PageAfter(coll, have) == SubSeq(coll, have + 1, Min(have + PageSize, Len(coll)))
HasNextAfter(coll, have) == have + PageSize < Len(coll)

\* A key that keeps the case of the name.
GroupKeyCaseKept(name) == Strip(name)

\* main: the key a correspondent is grouped under
GroupKey(name) == Lower(Strip(name))

RECURSIVE GroupBy(_, _)
\* main: grouped[key].append(correspondent), over the fetched list
GroupBy(list, acc) ==
    IF list = <<>> THEN acc
    ELSE LET k == GroupKey(Head(list).name)
         IN  GroupBy(Tail(list),
                     IF DictHas(acc, k)
                     THEN DictPut(acc, k, Append(DictGet(acc, k), Head(list)))
                     ELSE Append(acc, <<k, <<Head(list)>>>>))

RECURSIVE InsertById(_, _)
InsertById(sorted, c) ==
    IF sorted = <<>> THEN <<c>>
    ELSE IF c.id < Head(sorted).id THEN <<c>> \o sorted
    ELSE <<Head(sorted)>> \o InsertById(Tail(sorted), c)
\* A group left in list order.
SortByIdOmitted(group) == group

RECURSIVE SortById(_)
\* group.sort(key=lambda c: c["id"])
SortById(group) ==
    IF group = <<>> THEN <<>>
    ELSE InsertById(SortById(SubSeq(group, 1, Len(group) - 1)), group[Len(group)])

\* main: the group being processed, sorted, its survivor and its losers' range
GroupAt(gi) == SortById(grouped[gi][2])
Oldest(gi) == GroupAt(gi)[1]

\* The first group after gi that has more than one member (0: none).
NextDupGroup(gs, gi) ==
    IF \E j \in (gi + 1)..Len(gs) : Len(gs[j][2]) > 1
    THEN CHOOSE j \in (gi + 1)..Len(gs) :
           /\ Len(gs[j][2]) > 1
           /\ \A k \in (gi + 1)..(j - 1) : Len(gs[k][2]) <= 1
    ELSE 0

\* main's position when it turns to the next group after gi.
PosNextGroup(gs, gi) ==
    IF NextDupGroup(gs, gi) = 0
    THEN [pc |-> "done", gi |-> 0, li |-> 0, di |-> 0]
    ELSE [pc |-> "docs", gi |-> NextDupGroup(gs, gi), li |-> 2, di |-> 0]

\* main's position after the documents of loser li are re-pointed.
PosAfterLoserMerged(gi, li) ==
    IF li < Len(GroupAt(gi))
    THEN [pc |-> "docs", gi |-> gi, li |-> li + 1, di |-> 0]
    ELSE [pc |-> "delete", gi |-> gi, li |-> 2, di |-> 0]

\* title_case_name = oldest["name"].title()
TitleCaseName(gi) == Title(Oldest(gi).name)

\* main's position after the losers of group gi are deleted.
PosAfterDeletes(gi) ==
    IF Oldest(gi).name # TitleCaseName(gi)
    THEN [pc |-> "rename", gi |-> gi, li |-> 0, di |-> 0]
    ELSE PosNextGroup(grouped, gi)

PosAborted == [pc |-> "aborted", gi |-> mpos.gi, li |-> mpos.li, di |-> mpos.di]

LogEntry(op, id, ok, arg) == [op |-> op, id |-> id, ok |-> ok, arg |-> arg]

\* A listing cut after the first document of the correspondent.
DocIdsOfFirstOnly(docs, cid, d) ==
    IF \E k \in d..MaxMergeDocs : docs[k] = cid
    THEN << CHOOSE k \in d..MaxMergeDocs :
              docs[k] = cid /\ \A j \in d..(k - 1) : docs[j] # cid >>
    ELSE <<>>

\* A listing that ignores the correspondent__id filter.
DocIdsOfUnfiltered(docs, cid, d) == [k \in 1..(MaxMergeDocs + 1 - d) |-> d + k - 1]

\* The ids of the documents of a correspondent, in list order.
RECURSIVE DocIdsOf(_, _, _)
DocIdsOf(docs, cid, d) ==
    IF d > MaxMergeDocs THEN <<>>
    ELSE IF docs[d] = cid THEN <<d>> \o DocIdsOf(docs, cid, d + 1)
    ELSE DocIdsOf(docs, cid, d + 1)

\* merge_duplicates is not part of the run.
IdleMerge ==
    /\ mCorrs = <<>>
    /\ mCorrsAtStart = <<>>
    /\ mDocs = <<>>
    /\ mDocsAtStart = <<>>
    /\ mpos = [pc |-> "idle", gi |-> 0, li |-> 0, di |-> 0]
    /\ correspondents = <<>>
    /\ grouped = <<>>
    /\ documents = <<>>
    /\ mLog = <<>>

InitMerge ==
    /\ mCorrs \in InitMergeColls
    /\ mCorrsAtStart = mCorrs
    /\ mDocs \in [1..MaxMergeDocs -> {0} \cup { mCorrs[i].id : i \in 1..Len(mCorrs) }]
    /\ mDocsAtStart = mDocs
    /\ mpos = [pc |-> "fetch", gi |-> 0, li |-> 0, di |-> 0]
    /\ correspondents = <<>>
    /\ grouped = <<>>
    /\ documents = <<>>
    /\ mLog = <<>>

\* fetch_all_correspondents, one pass of its loop: GET the next page,
\* raise_for_status, extend the list; after the last page main groups the list
\* and turns to the first group with duplicates.
FetchAllCorrespondentsStep(ok) ==
    LET have == Len(correspondents)
        list == correspondents \o PageAfter(mCorrs, have)
        gs == GroupBy(list, <<>>)
    IN  /\ mLog' = Append(mLog, LogEntry("GET correspondents", 0, ok, have))
        /\ IF ~ok
           THEN mpos' = PosAborted /\ UNCHANGED <<correspondents, grouped>>
           ELSE /\ correspondents' = list
                /\ IF HasNextAfter(mCorrs, have)
                   THEN UNCHANGED <<mpos, grouped>>
                   ELSE grouped' = gs /\ mpos' = PosNextGroup(gs, 0)
        /\ UNCHANGED <<mCorrs, mCorrsAtStart, mDocs, mDocsAtStart, documents>>

FetchAllCorrespondents ==
    /\ mpos.pc = "fetch"
    /\ \E ok \in BOOLEAN : FetchAllCorrespondentsStep(ok)
    /\ UNCHANGED notMergeVars

\* fetch_documents_by_correspondent for loser li, one pass of its loop; after
\* the last page main patches the documents, if any.
FetchDocumentsStep(ok) ==
    LET loser == GroupAt(mpos.gi)[mpos.li]
        all == DocIdsOf(mDocs, loser.id, 1)
        have == Len(documents)
        page == PageAfter(all, have)
        list == documents \o page
    IN  /\ mLog' = Append(mLog, LogEntry("GET documents", loser.id, ok, page))
        /\ IF ~ok
           THEN mpos' = PosAborted /\ UNCHANGED documents
           ELSE IF HasNextAfter(all, have)
           THEN documents' = list /\ UNCHANGED mpos
           ELSE IF list # <<>>
           THEN documents' = list /\ mpos' = [mpos EXCEPT !.pc = "patch", !.di = 1]
           ELSE documents' = <<>> /\ mpos' = PosAfterLoserMerged(mpos.gi, mpos.li)
        /\ UNCHANGED <<mCorrs, mCorrsAtStart, mDocs, mDocsAtStart, correspondents,
                       grouped>>

FetchDocumentsByCorrespondent ==
    /\ mpos.pc = "docs"
    /\ \E ok \in BOOLEAN : FetchDocumentsStep(ok)
    /\ UNCHANGED notMergeVars

\* A PATCH whose failure is logged and skipped.
UpdateDocumentStepSkip(ok) ==
    LET doc == documents[mpos.di]
        target == Oldest(mpos.gi).id
    IN  /\ mLog' = Append(mLog, LogEntry("PATCH document", doc, ok, target))
        /\ mDocs' = IF ok THEN [mDocs EXCEPT ![doc] = target] ELSE mDocs
        /\ IF mpos.di < Len(documents)
           THEN mpos' = [mpos EXCEPT !.di = @ + 1] /\ UNCHANGED documents
           ELSE /\ mpos' = PosAfterLoserMerged(mpos.gi, mpos.li)
                /\ documents' = <<>>
        /\ UNCHANGED <<mCorrs, mCorrsAtStart, mDocsAtStart, correspondents, grouped>>

\* update_document_correspondent(document["id"], oldest["id"]): one PATCH and
\* raise_for_status.
UpdateDocumentStep(ok) ==
    LET doc == documents[mpos.di]
        target == Oldest(mpos.gi).id
    IN  /\ mLog' = Append(mLog, LogEntry("PATCH document", doc, ok, target))
        /\ IF ~ok
           THEN mpos' = PosAborted /\ UNCHANGED <<mDocs, documents>>
           ELSE /\ mDocs' = [mDocs EXCEPT ![doc] = target]
                /\ IF mpos.di < Len(documents)
                   THEN mpos' = [mpos EXCEPT !.di = @ + 1] /\ UNCHANGED documents
                   ELSE /\ mpos' = PosAfterLoserMerged(mpos.gi, mpos.li)
                        /\ documents' = <<>>
        /\ UNCHANGED <<mCorrs, mCorrsAtStart, mDocsAtStart, correspondents, grouped>>

UpdateDocumentCorrespondent ==
    /\ mpos.pc = "patch"
    /\ \E ok \in BOOLEAN : UpdateDocumentStep(ok)
    /\ UNCHANGED notMergeVars

\* The API's correspondents without the one of the id.
RECURSIVE WithoutId(_, _)
WithoutId(coll, id) ==
    IF coll = <<>> THEN <<>>
    ELSE IF Head(coll).id = id THEN WithoutId(Tail(coll), id)
    ELSE <<Head(coll)>> \o WithoutId(Tail(coll), id)

\* A DELETE whose failure is logged and skipped.
DeleteLoserStepSkip(ok) ==
    LET loser == GroupAt(mpos.gi)[mpos.li]
    IN  /\ mLog' = Append(mLog, LogEntry("DELETE correspondent", loser.id, ok, 0))
        /\ mCorrs' = IF ok THEN WithoutId(mCorrs, loser.id) ELSE mCorrs
        /\ mDocs' = IF ok
                    THEN [d \in DOMAIN mDocs |->
                            IF mDocs[d] = loser.id THEN 0 ELSE mDocs[d]]
                    ELSE mDocs
        /\ mpos' = IF mpos.li < Len(GroupAt(mpos.gi))
                   THEN [mpos EXCEPT !.li = @ + 1]
                   ELSE PosAfterDeletes(mpos.gi)
        /\ UNCHANGED <<mCorrsAtStart, mDocsAtStart, correspondents, grouped, documents>>

\* main: DELETE /api/correspondents/{id}/ of loser li and raise_for_status.  The
\* API clears the correspondent of the documents that still refer to it.
DeleteLoserStep(ok) ==
    LET loser == GroupAt(mpos.gi)[mpos.li]
    IN  /\ mLog' = Append(mLog, LogEntry("DELETE correspondent", loser.id, ok, 0))
        /\ IF ~ok
           THEN mpos' = PosAborted /\ UNCHANGED <<mCorrs, mDocs>>
           ELSE /\ mCorrs' = WithoutId(mCorrs, loser.id)
                /\ mDocs' = [d \in DOMAIN mDocs |->
                               IF mDocs[d] = loser.id THEN 0 ELSE mDocs[d]]
                /\ mpos' = IF mpos.li < Len(GroupAt(mpos.gi))
                           THEN [mpos EXCEPT !.li = @ + 1]
                           ELSE PosAfterDeletes(mpos.gi)
        /\ UNCHANGED <<mCorrsAtStart, mDocsAtStart, correspondents, grouped, documents>>

DeleteLoser ==
    /\ mpos.pc = "delete"
    /\ \E ok \in BOOLEAN : DeleteLoserStep(ok)
    /\ UNCHANGED notMergeVars

\* update_correspondent_name(oldest["id"], title_case_name): one PATCH and
\* raise_for_status.
UpdateNameStep(ok) ==
    LET oldest == Oldest(mpos.gi)
        new_name == TitleCaseName(mpos.gi)
    IN  /\ mLog' = Append(mLog, LogEntry("PATCH correspondent", oldest.id, ok, new_name))
        /\ IF ~ok
           THEN mpos' = PosAborted /\ UNCHANGED mCorrs
           ELSE /\ mCorrs' = [i \in 1..Len(mCorrs) |->
                                IF mCorrs[i].id = oldest.id
                                THEN [id |-> oldest.id, name |-> new_name]
                                ELSE mCorrs[i]]
                /\ mpos' = PosNextGroup(grouped, mpos.gi)
        /\ UNCHANGED <<mCorrsAtStart, mDocs, mDocsAtStart, correspondents, grouped,
                       documents>>

UpdateCorrespondentName ==
    /\ mpos.pc = "rename"
    /\ \E ok \in BOOLEAN : UpdateNameStep(ok)
    /\ UNCHANGED notMergeVars

\* ------------------------------------------------------------------ document tags
RECURSIVE SortedSeq(_)
\* sorted(a set of ids)
SortedSeq(S) ==
    IF S = {} THEN <<>>
    ELSE LET m == CHOOSE x \in S : \A y \in S : x <= y
         IN  <<m>> \o SortedSeq(S \ {m})

\* The "tags" list of a document as a GET returns it: every item is a bare id
\* (kind "id"), an object with an id (kind "dict") or an object without one
\* (kind "noid", whose id field is 0 and stands for None).
TagItem(kind, id) == [kind |-> kind, id |-> id]
BareIds(S) == [i \in 1..Cardinality(S) |-> TagItem("id", SortedSeq(S)[i])]

\* utils.api_helpers.add_tag_to_document: existing_tags, a set comprehension of
\* tag.get("id") for an object and of the item itself otherwise (0: None).
HelpersExistingTags(items) == { items[i].id : i \in 1..Len(items) }
\* sorted() raises a TypeError when the set holds None beside an id.
HelpersSortFails(items, tag_id) == 0 \in HelpersExistingTags(items)
\* the payload: sorted(existing_tags) after existing_tags.add(tag_id)
HelpersPayload(items, tag_id) == SortedSeq(HelpersExistingTags(items) \cup {tag_id})

\* postprocess.add_tag_to_document: existing_tags, built by a loop that adds the
\* id of an object that has one and an item that is an int, and skips the rest.
PostprocessExistingTagsIntsOnly(items) ==
    { items[i].id : i \in { j \in 1..Len(items) : items[j].kind = "id" } }

PostprocessExistingTags(items) ==
    { items[i].id : i \in { j \in 1..Len(items) : items[j].kind \in {"id", "dict"} } }
\* the payload: sorted(existing_tags) after existing_tags.add(tag_id)
PostprocessPayload(items, tag_id) == SortedSeq(PostprocessExistingTags(items) \cup {tag_id})

\* The tag ids a document carries and a tag is added from.
AddTagIdPool == {2, 3, 5}

\* The "tags" lists a GET of the document may return for the ids it holds: the
\* ids in ascending order, each bare or as an object, and possibly one more
\* object without an id.
TagListsOf(S) ==
    LET ids == SortedSeq(S)
        known == { [i \in 1..Len(ids) |-> TagItem(ks[i], ids[i])] :
                     ks \in [1..Len(ids) -> {"id", "dict"}] }
    IN  known \cup { Append(l, TagItem("noid", 0)) : l \in known }

\* add_tag_to_document is not part of the run.
IdleAddTag ==
    /\ aVariant = "none"
    /\ aDocTags = {}
    /\ aDocTagsAtStart = {}
    /\ aTagId = 0
    /\ aCall = 0
    /\ apc = "idle"
    /\ aItems = <<>>
    /\ aOutcome = <<>>
    /\ aPatches = <<>>

\* Two calls in a row of one of the two functions, with the same tag_id.
InitAddTag ==
    /\ aVariant \in {"postprocess", "helpers"}
    /\ aDocTags \in SUBSET AddTagIdPool
    /\ aDocTagsAtStart = aDocTags
    /\ aTagId \in AddTagIdPool
    /\ aCall = 1
    /\ apc = "get"
    /\ aItems = <<>>
    /\ aOutcome = [i \in 1..2 |-> "pending"]
    /\ aPatches = <<>>

\* The call in progress ends; the next call, if any, starts.
EndAddTagCall(outcome) ==
    /\ aOutcome' = [aOutcome EXCEPT ![aCall] = outcome]
    /\ aItems' = <<>>
    /\ IF aCall < 2
       THEN aCall' = aCall + 1 /\ apc' = "get"
       ELSE aCall' = aCall /\ apc' = "done"

\* fetch_document_details: the GET of the document; a non-success status
\* raises, and add_tag_to_document with it.
AddTagGetStep(ok, items) ==
    /\ IF ok
       THEN /\ aItems' = items
            /\ apc' = "patch"
            /\ UNCHANGED <<aCall, aOutcome>>
       ELSE EndAddTagCall("raised")
    /\ UNCHANGED <<aVariant, aDocTags, aDocTagsAtStart, aTagId, aPatches>>

AddTagGet ==
    /\ apc = "get"
    /\ \E ok \in BOOLEAN, items \in TagListsOf(aDocTags) : AddTagGetStep(ok, items)
    /\ UNCHANGED notAddTagVars

\* The rest of add_tag_to_document: the set of current ids, tag_id added, the
\* sorted payload, and the PATCH, whose failure raises.  In the helpers'
\* function an object without an id puts None into the set and sorted() raises.
AddTagPatchStep(ok) ==
    LET payload == IF aVariant = "helpers"
                   THEN HelpersPayload(aItems, aTagId)
                   ELSE PostprocessPayload(aItems, aTagId)
    IN  /\ IF aVariant = "helpers" /\ HelpersSortFails(aItems, aTagId)
           THEN /\ EndAddTagCall("raised")
                /\ UNCHANGED <<aDocTags, aPatches>>
           ELSE /\ aPatches' = Append(aPatches, [call |-> aCall, items |-> aItems,
                                                 payload |-> payload, ok |-> ok])
                /\ IF ok
                   THEN /\ aDocTags' = { payload[i] : i \in 1..Len(payload) }
                        /\ EndAddTagCall("returned")
                   ELSE /\ aDocTags' = aDocTags
                        /\ EndAddTagCall("raised")
        /\ UNCHANGED <<aVariant, aDocTagsAtStart, aTagId>>

AddTagPatch ==
    /\ apc = "patch"
    /\ \E ok \in BOOLEAN : AddTagPatchStep(ok)
    /\ UNCHANGED notAddTagVars

\* ------------------------------------------------------------------ retrying classifier call
\* What one upstream call may end in: a completion that is valid under the
\* schema, one that is JSON but invalid, one that is not JSON, a rate-limit
\* error, or another OpenAI error (a 428, another status, or an error object
\* without the http_status attribute the handler reads).
UpstreamOutcomes ==
    {"valid", "invalid", "notjson", "ratelimit", "error428", "error", "errorNoStatus"}

\* The Retry-After header of a rate-limit error: absent (-1) or whole seconds.
RetryAfterValues == {-1} \cup 0..MaxRetryAfter

RECURSIVE Pow(_, _)
Pow(b, n) == IF n = 0 THEN 1 ELSE b * Pow(b, n - 1)

\* A delay that ignores the Retry-After header.
RetryDelayNoHeader(a, jitter, header) ==
    Pow(backoff_factor, a) * JitterScale + jitter

\* A delay without the exponential term.
RetryDelayNoBackoff(a, jitter, header) ==
    IF header # -1 THEN header * JitterScale
    ELSE JitterScale + jitter

\* retry_after, in 1/JitterScale s: backoff_factor ** attempt + jitter, replaced
\* by the Retry-After header when the error carries one.
RetryDelay(a, jitter, header) ==
    IF header # -1 THEN header * JitterScale
    ELSE Pow(backoff_factor, a) * JitterScale + jitter

\* A loop that runs once more than max_retries.
LoopExhaustedLate(a) == a > max_retries

\* `for attempt in range(max_retries)` is exhausted.
LoopExhausted(a) == a >= max_retries

\* The name of the failure tag, and a tag the API may hold under another case.
FailureTagName ==
    <<"t", "a", "x", "-", "c", "h", "e", "c", "k", "-", "f", "a", "i", "l", "e", "d">>
FailureTagNameTitled ==
    <<"T", "a", "x", "-", "C", "h", "e", "c", "k", "-", "F", "a", "i", "l", "e", "d">>

\* The tag collections the API may hold when the failure tag is resolved: up to
\* MaxInitTags tags with ids 1..n in list order, none of them the failure tag
\* (at = 0) or the one at position `at`, named in title case.
FailureTagColls ==
    { [i \in 1..n |-> [id |-> i,
                       name |-> IF i = at THEN FailureTagNameTitled ELSE OtherTagName]] :
        n \in 0..MaxInitTags, at \in 0..MaxInitTags }

\* The tag ids the document under analysis may carry initially: 1..k.
InitDocTagSets == { 1..k : k \in 0..MaxDocTags }

\* analyze_document_with_openai is not part of the run.
IdleRetry ==
    /\ rpc = "idle"
    /\ schemaLoaded = FALSE
    /\ attempt = 0
    /\ rCalls = 0
    /\ rOutcomes = <<>>
    /\ rSleeps = <<>>
    /\ rHeaders = <<>>
    /\ rResult = "pending"
    /\ rTagged = FALSE
    /\ rApiTags = <<>>
    /\ rTagId = 0
    /\ rTagPosts = 0
    /\ rDocTags = {}
    /\ rDocPatches = <<>>
    /\ rReqFail = FALSE
    /\ rHelperRaised = "none"

InitRetry ==
    /\ rpc = "load"
    /\ schemaLoaded = FALSE
    /\ attempt = 0
    /\ rCalls = 0
    /\ rOutcomes = <<>>
    /\ rSleeps = <<>>
    /\ rHeaders = <<>>
    /\ rResult = "pending"
    /\ rTagged = FALSE
    /\ rApiTags = <<>>
    /\ rTagId = 0
    /\ rTagPosts = 0
    /\ rDocTags \in InitDocTagSets
    /\ rDocPatches = <<>>
    /\ rReqFail = FALSE
    /\ rHelperRaised = "none"

\* The function's start: the schema file is read; a failure returns None.
LoadSchemaStep(ok) ==
    /\ schemaLoaded' = ok
    /\ IF ok
       THEN rpc' = "call" /\ rResult' = rResult
       ELSE rpc' = "done" /\ rResult' = "None"
    /\ UNCHANGED <<attempt, rCalls, rOutcomes, rSleeps, rHeaders, rTagged, rApiTags,
                   rTagId, rTagPosts, rDocTags, rDocPatches, rReqFail, rHelperRaised>>

LoadSchema ==
    /\ rpc = "load"
    /\ \E ok \in BOOLEAN : LoadSchemaStep(ok)
    /\ UNCHANGED notRetryVars

\* A loop body whose handler of the other OpenAI errors goes on to the next
\* pass instead of leaving the loop.
AttemptStepErrorRetried(outcome, jitter, header, coll) ==
    /\ rCalls' = rCalls + 1
    /\ rOutcomes' = Append(rOutcomes, outcome)
    /\ CASE outcome = "valid" ->
              /\ rpc' = "done" /\ rResult' = "result"
              /\ UNCHANGED <<attempt, rSleeps, rHeaders, rApiTags>>
         [] outcome = "invalid" ->
              /\ rpc' = "tag"
              /\ rApiTags' = coll
              /\ UNCHANGED <<attempt, rSleeps, rHeaders, rResult>>
         [] outcome \in {"notjson", "errorNoStatus"} ->
              /\ rpc' = "done" /\ rResult' = "raised"
              /\ UNCHANGED <<attempt, rSleeps, rHeaders, rApiTags>>
         [] outcome = "ratelimit" ->
              /\ rSleeps' = Append(rSleeps, RetryDelay(attempt, jitter, header))
              /\ rHeaders' = Append(rHeaders, header)
              /\ attempt' = attempt + 1
              /\ IF LoopExhausted(attempt + 1)
                 THEN rpc' = "done" /\ rResult' = "None"
                 ELSE rpc' = "call" /\ rResult' = rResult
              /\ UNCHANGED rApiTags
         [] outcome \in {"error428", "error"} ->
              /\ attempt' = attempt + 1
              /\ IF LoopExhausted(attempt + 1)
                 THEN rpc' = "done" /\ rResult' = "None"
                 ELSE rpc' = "call" /\ rResult' = rResult
              /\ UNCHANGED <<rSleeps, rHeaders, rApiTags>>
    /\ UNCHANGED <<schemaLoaded, rTagged, rTagId, rTagPosts, rDocTags, rDocPatches,
                   rReqFail, rHelperRaised>>

\* One pass of the retry loop: the upstream call and what its outcome leads to.
\* coll is the API's tag collection at the moment a schema-invalid completion
\* sends the function to the failure tag.
AttemptStep(outcome, jitter, header, coll) ==
    /\ rCalls' = rCalls + 1
    /\ rOutcomes' = Append(rOutcomes, outcome)
    /\ CASE outcome = "valid" ->
              /\ rpc' = "done" /\ rResult' = "result"
              /\ UNCHANGED <<attempt, rSleeps, rHeaders, rApiTags>>
         [] outcome = "invalid" ->
              /\ rpc' = "tag"
              /\ rApiTags' = coll
              /\ UNCHANGED <<attempt, rSleeps, rHeaders, rResult>>
         [] outcome \in {"notjson", "errorNoStatus"} ->
              /\ rpc' = "done" /\ rResult' = "raised"
              /\ UNCHANGED <<attempt, rSleeps, rHeaders, rApiTags>>
         [] outcome = "ratelimit" ->
              /\ rSleeps' = Append(rSleeps, RetryDelay(attempt, jitter, header))
              /\ rHeaders' = Append(rHeaders, header)
              /\ attempt' = attempt + 1
              /\ IF LoopExhausted(attempt + 1)
                 THEN rpc' = "done" /\ rResult' = "None"
                 ELSE rpc' = "call" /\ rResult' = rResult
              /\ UNCHANGED rApiTags
         [] outcome \in {"error428", "error"} ->
              /\ rpc' = "done" /\ rResult' = "None"
              /\ UNCHANGED <<attempt, rSleeps, rHeaders, rApiTags>>
    /\ UNCHANGED <<schemaLoaded, rTagged, rTagId, rTagPosts, rDocTags, rDocPatches,
                   rReqFail, rHelperRaised>>

Attempt ==
    /\ rpc = "call"
    /\ \E outcome \in UpstreamOutcomes :
         CASE outcome = "ratelimit" ->
                \E jitter \in 0..(JitterScale - 1), header \in RetryAfterValues :
                    AttemptStep(outcome, jitter, header, <<>>)
           [] outcome = "invalid" ->
                \E coll \in FailureTagColls : AttemptStep(outcome, 0, -1, coll)
           [] OTHER -> AttemptStep(outcome, 0, -1, <<>>)
    /\ UNCHANGED notRetryVars

\* The statuses the API may answer the POST of the failure tag with.
FailureTagPostStatuses ==
    {"created", "error"}
        \cup (IF ApiHasName(rApiTags, FailureTagName) THEN {"unique"} ELSE {})

\* The schema-invalid branch, first half: fetch_or_create_tag("tax-check-failed"),
\* that is fetch_tags (a failed GET gives an empty dict), the normalized lookup
\* and, on a miss, create_tag; a failed POST makes fetch_or_create_tag raise, and
\* the exception leaves analyze_document_with_openai.
ResolveFailureTagStep(getOk, status) ==
    LET d == IF getOk THEN FetchTagsDict(rApiTags) ELSE <<>>
        found == LookupTag(d, FailureTagName)
    IN  /\ IF found # 0
           THEN /\ rTagId' = found
                /\ rpc' = "attach"
                /\ rReqFail' = (rReqFail \/ ~getOk)
                /\ UNCHANGED <<rApiTags, rTagPosts, rResult, rHelperRaised>>
           ELSE /\ rTagPosts' = rTagPosts + 1
                /\ rReqFail' = (rReqFail \/ ~getOk \/ status = "error")
                /\ IF status = "created"
                   THEN /\ rApiTags' = Append(rApiTags, [id |-> NextId(rApiTags),
                                                         name |-> FailureTagName])
                        /\ rTagId' = NextId(rApiTags)
                        /\ rpc' = "attach"
                        /\ UNCHANGED <<rResult, rHelperRaised>>
                   ELSE /\ rpc' = "done"
                        /\ rHelperRaised' = "fetch_or_create_tag"
                        /\ rResult' = "raised"
                        /\ UNCHANGED <<rApiTags, rTagId>>
        /\ UNCHANGED <<schemaLoaded, attempt, rCalls, rOutcomes, rSleeps, rHeaders,
                       rTagged, rDocTags, rDocPatches>>

ResolveFailureTag ==
    /\ rpc = "tag"
    /\ \E getOk \in BOOLEAN, status \in FailureTagPostStatuses :
         ResolveFailureTagStep(getOk, status)
    /\ UNCHANGED notRetryVars

\* A second half whose exceptions are caught and turned into a None result.
AttachFailureTagStepSwallowed(getOk, patchOk) ==
    LET items == BareIds(rDocTags)
        payload == HelpersPayload(items, rTagId)
    IN  /\ rpc' = "done"
        /\ rResult' = "None"
        /\ IF getOk /\ ~HelpersSortFails(items, rTagId)
           THEN /\ rDocPatches' = Append(rDocPatches, payload)
                /\ rReqFail' = (rReqFail \/ ~patchOk)
                /\ IF patchOk
                   THEN /\ rDocTags' = { payload[i] : i \in 1..Len(payload) }
                        /\ rTagged' = TRUE
                        /\ UNCHANGED rHelperRaised
                   ELSE /\ rHelperRaised' = "add_tag_to_document"
                        /\ UNCHANGED <<rDocTags, rTagged>>
           ELSE /\ rReqFail' = (rReqFail \/ ~getOk)
                /\ rHelperRaised' = "add_tag_to_document"
                /\ UNCHANGED <<rDocTags, rTagged, rDocPatches>>
        /\ UNCHANGED <<schemaLoaded, attempt, rCalls, rOutcomes, rSleeps, rHeaders,
                       rApiTags, rTagId, rTagPosts>>

\* The schema-invalid branch, second half: add_tag_to_document, that is the GET
\* of the document, the PATCH of its tags (answered 200 or with an error
\* status), and `return None`; a failure of either request raises, and the
\* exception leaves analyze_document_with_openai.
AttachFailureTagStep(getOk, patchOk) ==
    LET items == BareIds(rDocTags)
        payload == HelpersPayload(items, rTagId)
    IN  /\ rpc' = "done"
        /\ IF getOk /\ ~HelpersSortFails(items, rTagId)
           THEN /\ rDocPatches' = Append(rDocPatches, payload)
                /\ rReqFail' = (rReqFail \/ ~patchOk)
                /\ IF patchOk
                   THEN /\ rDocTags' = { payload[i] : i \in 1..Len(payload) }
                        /\ rTagged' = TRUE
                        /\ rResult' = "None"
                        /\ UNCHANGED rHelperRaised
                   ELSE /\ rHelperRaised' = "add_tag_to_document"
                        /\ rResult' = "raised"
                        /\ UNCHANGED <<rDocTags, rTagged>>
           ELSE /\ rReqFail' = (rReqFail \/ ~getOk)
                /\ rHelperRaised' = "add_tag_to_document"
                /\ rResult' = "raised"
                /\ UNCHANGED <<rDocTags, rTagged, rDocPatches>>
        /\ UNCHANGED <<schemaLoaded, attempt, rCalls, rOutcomes, rSleeps, rHeaders,
                       rApiTags, rTagId, rTagPosts>>

AttachFailureTag ==
    /\ rpc = "attach"
    /\ \E getOk \in BOOLEAN, patchOk \in BOOLEAN : AttachFailureTagStep(getOk, patchOk)
    /\ UNCHANGED notRetryVars

\* ------------------------------------------------------------------ list fetchers
\* The fetchers that loop over the pages: merge_duplicates.fetch_all_correspondents
\* and fetch_documents_by_correspondent, cleanup_correspondents.fetch_all_correspondents
\* and postprocess_all.fetch_all_documents have the same loop, and differ in
\* their first URL only.
PagedFetchers ==
    { "merge_duplicates.fetch_all_correspondents",
      "merge_duplicates.fetch_documents_by_correspondent",
      "cleanup_correspondents.fetch_all_correspondents",
      "postprocess_all.fetch_all_documents" }

\* The fetchers of utils/api_helpers.py that issue one GET inside try/except.
HelperFetchers ==
    { "api_helpers.fetch_tags",
      "api_helpers.fetch_correspondents",
      "api_helpers.get_correspondents" }

\* The collections an endpoint may list: n resources, ids ascending or
\* descending in list order.
FetchColls ==
    UNION { { [i \in 1..n |-> i], [i \in 1..n |-> n + 1 - i] } : n \in 0..MaxFetchItems }

\* The API's answer to the URL of the page that starts at item k.
PageResponse(coll, k) ==
    [results |-> SubSeq(coll, k, Min(k + PageSize - 1, Len(coll))),
     next |-> IF k + PageSize <= Len(coll) THEN k + PageSize ELSE 0]

\* No fetcher is part of the run.
IdleFetch ==
    /\ fFetcher = "none"
    /\ fColl = <<>>
    /\ fNextUrl = 0
    /\ fResults = <<>>
    /\ fRequested = <<>>
    /\ fFailed = FALSE
    /\ fetchPc = "idle"

InitFetch ==
    /\ fFetcher \in PagedFetchers \cup HelperFetchers
    /\ fColl \in FetchColls
    /\ fNextUrl = 1
    /\ fResults = <<>>
    /\ fRequested = <<>>
    /\ fFailed = FALSE
    /\ fetchPc = "loop"

\* A fetcher that returns after its first page.
PagedFetchStepFirstPage(ok) ==
    LET resp == PageResponse(fColl, fNextUrl)
    IN  /\ fRequested' = Append(fRequested, fNextUrl)
        /\ fFailed' = (fFailed \/ ~ok)
        /\ IF ~ok
           THEN fetchPc' = "raised" /\ UNCHANGED <<fResults, fNextUrl>>
           ELSE /\ fResults' = fResults \o resp.results
                /\ fNextUrl' = 0
                /\ fetchPc' = "done"
        /\ UNCHANGED <<fFetcher, fColl>>

\* One pass of `while next_url`: the GET, raise_for_status (which raises out of
\* the fetcher), results appended, next_url taken from "next"; the loop ends,
\* and the list is returned, when "next" is None.
PagedFetchStep(ok) ==
    LET resp == PageResponse(fColl, fNextUrl)
    IN  /\ fRequested' = Append(fRequested, fNextUrl)
        /\ fFailed' = (fFailed \/ ~ok)
        /\ IF ~ok
           THEN fetchPc' = "raised" /\ UNCHANGED <<fResults, fNextUrl>>
           ELSE /\ fResults' = fResults \o resp.results
                /\ fNextUrl' = resp.next
                /\ fetchPc' = IF resp.next = 0 THEN "done" ELSE "loop"
        /\ UNCHANGED <<fFetcher, fColl>>

PagedFetch ==
    /\ fetchPc = "loop"
    /\ fFetcher \in PagedFetchers
    /\ \E ok \in BOOLEAN : PagedFetchStep(ok)
    /\ UNCHANGED notFetchVars

\* fetch_tags, fetch_correspondents and get_correspondents of
\* utils/api_helpers.py: one GET without a page parameter; the results of the
\* response are returned (as a dict of names to ids, here the list of ids), and
\* any exception, that of raise_for_status included, is logged and {} returned.
HelperFetchStep(ok) ==
    /\ fRequested' = Append(fRequested, fNextUrl)
    /\ fFailed' = (fFailed \/ ~ok)
    /\ fResults' = IF ok THEN FirstPage(fColl) ELSE <<>>
    /\ fNextUrl' = 0
    /\ fetchPc' = "done"
    /\ UNCHANGED <<fFetcher, fColl>>

HelperFetch ==
    /\ fetchPc = "loop"
    /\ fFetcher \in HelperFetchers
    /\ \E ok \in BOOLEAN : HelperFetchStep(ok)
    /\ UNCHANGED notFetchVars

\* ------------------------------------------------------------------ clean_fields
DigitChars == <<"0", "1", "2", "3", "4", "5", "6", "7", "8", "9">>
IsDigit(c) == \E n \in 1..10 : DigitChars[n] = c
DigitVal(c) == (CHOOSE n \in 1..10 : DigitChars[n] = c) - 1
IsDigits(t) == \A i \in 1..Len(t) : IsDigit(t[i])
\* int(t) of a string of digits
NatOf(t) ==
    LET f[i \in 0..Len(t)] == IF i = 0 THEN 0 ELSE f[i - 1] * 10 + DigitVal(t[i])
    IN f[Len(t)]
\* n in decimal, zero-padded to w digits
Pad(n, w) == [i \in 1..w |-> DigitChars[((n \div Pow(10, w - i)) % 10) + 1]]
\* n in decimal, as str(n) writes it
RECURSIVE Decimal(_)
Decimal(n) == IF n < 10 THEN <<DigitChars[n + 1]>> ELSE Decimal(n \div 10) \o <<DigitChars[(n % 10) + 1]>>

\* The pieces of s between the occurrences of the character sep.
RECURSIVE Split(_, _)
Split(s, sep) ==
    IF \E i \in 1..Len(s) : s[i] = sep
    THEN LET p == CHOOSE i \in 1..Len(s) : s[i] = sep /\ \A j \in 1..(i - 1) : s[j] # sep
         IN <<SubSeq(s, 1, p - 1)>> \o Split(SubSeq(s, p + 1, Len(s)), sep)
    ELSE <<s>>
NonEmpty(pieces) == SelectSeq(pieces, LAMBDA t : t # <<>>)

\* strptime directives: the number a token stands for, or -1 when the token
\* does not match the directive.
\* %d: 3[0-1]|[1-2]\d|0[1-9]|[1-9]
MatchDay(t) ==
    IF Len(t) \in 1..2 /\ IsDigits(t) /\ NatOf(t) \in 1..31 THEN NatOf(t) ELSE -1
\* %m: 1[0-2]|0[1-9]|[1-9]
MatchMonth(t) ==
    IF Len(t) \in 1..2 /\ IsDigits(t) /\ NatOf(t) \in 1..12 THEN NatOf(t) ELSE -1
\* %b: the abbreviated month names of the C locale, in any case
MonthAbbr ==
    << <<"j", "a", "n">>, <<"f", "e", "b">>, <<"m", "a", "r">>, <<"a", "p", "r">>,
       <<"m", "a", "y">>, <<"j", "u", "n">>, <<"j", "u", "l">>, <<"a", "u", "g">>,
       <<"s", "e", "p">>, <<"o", "c", "t">>, <<"n", "o", "v">>, <<"d", "e", "c">> >>
MatchMonthAbbr(t) ==
    IF \E m \in 1..12 : MonthAbbr[m] = Lower(t)
    THEN CHOOSE m \in 1..12 : MonthAbbr[m] = Lower(t)
    ELSE -1
\* %Y: \d\d\d\d
MatchYear4(t) == IF Len(t) = 4 /\ IsDigits(t) THEN NatOf(t) ELSE -1
\* %y: \d\d, 69..99 in the 1900s and 00..68 in the 2000s
MatchYear2(t) ==
    IF Len(t) = 2 /\ IsDigits(t)
    THEN (IF NatOf(t) >= 69 THEN 1900 + NatOf(t) ELSE 2000 + NatOf(t))
    ELSE -1

IsLeapYear(y) == (y % 4 = 0 /\ y % 100 # 0) \/ y % 400 = 0
DaysInMonth(m, y) ==
    IF m = 2 THEN (IF IsLeapYear(y) THEN 29 ELSE 28)
    ELSE IF m \in {4, 6, 9, 11} THEN 30 ELSE 31
\* datetime(y, m, d) raises ValueError for a day the month does not have
ValidDate(d, m, y) == y >= 1 /\ m \in 1..12 /\ d >= 1 /\ d <= DaysInMonth(m, y)

\* clean_fields: the formats tried, in order
DateFormats == <<"%d.%m.%Y", "%d/%m/%Y", "%d %b %y">>

\* datetime.strptime(value, date_format) of a stripped value: the date, or
\* ok = FALSE for ValueError. A space of the format matches a run of whitespace.
Strptime(value, date_format) ==
    LET t == IF date_format = "%d.%m.%Y" THEN Split(value, ".")
             ELSE IF date_format = "%d/%m/%Y" THEN Split(value, "/")
             ELSE NonEmpty(Split(value, " "))
        d == MatchDay(t[1])
        m == IF date_format = "%d %b %y" THEN MatchMonthAbbr(t[2]) ELSE MatchMonth(t[2])
        y == IF date_format = "%d %b %y" THEN MatchYear2(t[3]) ELSE MatchYear4(t[3])
    IN IF Len(t) = 3 /\ d # -1 /\ m # -1 /\ y # -1 /\ ValidDate(d, m, y)
       THEN [ok |-> TRUE, d |-> d, m |-> m, y |-> y]
       ELSE [ok |-> FALSE, d |-> 0, m |-> 0, y |-> 0]

\* A rendering with the day before the month.
StrftimeDayFirst(dt) == Pad(dt.y, 4) \o <<"-">> \o Pad(dt.d, 2) \o <<"-">> \o Pad(dt.m, 2)

\* .strftime("%Y-%m-%d")
Strftime(dt) == Pad(dt.y, 4) \o <<"-">> \o Pad(dt.m, 2) \o <<"-">> \o Pad(dt.d, 2)

\* clean_fields, data_type "date": the first format that parses the value
\* gives the result; the for-else raises ValueError when none does.
CleanDate(value) ==
    IF \E f \in 1..Len(DateFormats) : Strptime(value, DateFormats[f]).ok
    THEN LET f == CHOOSE g \in 1..Len(DateFormats) :
                      /\ Strptime(value, DateFormats[g]).ok
                      /\ \A h \in 1..(g - 1) : ~Strptime(value, DateFormats[h]).ok
         IN [ok |-> TRUE, value |-> Strftime(Strptime(value, DateFormats[f]))]
    ELSE [ok |-> FALSE, value |-> value]

\* clean_fields, data_type "monetary": keep the digits, commas, dots and minus
\* signs, turn commas into dots, and write round(float(_), 2) as str does.
\* float raises ValueError unless the text is [-]digits[.digits] with a digit.
\* (Fractions of more than two digits, which round() would shorten, are
\* outside the values of the model.)
CleanMonetary(value) ==
    LET kept == SelectSeq(value, LAMBDA c : IsDigit(c) \/ c \in {",", ".", "-"})
        s == [i \in 1..Len(kept) |-> IF kept[i] = "," THEN "." ELSE kept[i]]
        neg == s # <<>> /\ s[1] = "-"
        body == IF neg THEN Tail(s) ELSE s
        p == Split(body, ".")
        whole == p[1]
        frac == IF Len(p) = 2 THEN p[2] ELSE <<>>
        fracKept == IF frac = <<>> \/ NatOf(frac) = 0 THEN <<"0">>
                    ELSE IF frac[Len(frac)] = "0" THEN SubSeq(frac, 1, Len(frac) - 1)
                    ELSE frac
    IN IF /\ Len(p) <= 2
          /\ IsDigits(whole) /\ IsDigits(frac)
          /\ Len(whole) + Len(frac) > 0
          /\ Len(frac) <= 2
       THEN [ok |-> TRUE,
             value |-> (IF neg THEN <<"-">> ELSE <<>>) \o Decimal(NatOf(whole))
                       \o <<".">> \o fracKept]
       ELSE [ok |-> FALSE, value |-> value]

\* clean_fields, one value of a known field: what is stored, or ok = FALSE when
\* the ValueError is caught and the field skipped.
CleanValue(value, data_type) ==
    IF data_type = "date" THEN CleanDate(value)
    ELSE IF data_type = "monetary" THEN CleanMonetary(value)
    ELSE [ok |-> TRUE, value |-> value]

\* The texts a date value is put together from: day, separator, month,
\* separator, year, with or without surrounding blanks.
DayTokens == { <<"0", "1">>, <<"1">>, <<"2", "9">>, <<"3", "2">> }
MonthTokens == { <<"0", "2">>, <<"2">>, <<"0", "4">>, <<"1", "3">>, <<"F", "e", "b">> }
YearTokens == { <<"2", "0", "2", "3">>, <<"2", "0", "2", "4">>, <<"2", "3">>, <<"6", "9">> }
DateSeparators == { ".", "/", " " }
DateParts ==
    [d : DayTokens, s1 : DateSeparators, m : MonthTokens, s2 : DateSeparators,
     y : YearTokens, blanks : BOOLEAN]
DateText(parts) ==
    (IF parts.blanks THEN <<" ">> ELSE <<>>)
    \o parts.d \o <<parts.s1>> \o parts.m \o <<parts.s2>> \o parts.y
    \o (IF parts.blanks THEN <<" ", " ">> ELSE <<>>)

TextValue == <<"v", "a", "l", "u", "e">>
TextMoney == <<"1", "2", "3", "4", ",", "5", "0">>
TextAbbrDate == <<" ", "1", " ", " ", "f", "e", "b", " ", "2", "3", " ">>
\* The further entries of fields: a value and the data type field_meta
\* declares for its key ("none": the key is not in field_meta).
OtherEntries ==
    { <<TextValue, "none">>, <<TextValue, "string">>, <<TextValue, "date">>,
      <<TextMoney, "monetary">>, <<TextAbbrDate, "date">>, <<TextAbbrDate, "none">> }
FieldKeys == <<"date_field", "money_field", "ignored_field", "note_field">>

\* clean_fields is not part of the run.
IdleClean ==
    /\ cfFields = <<>>
    /\ field_meta = <<>>
    /\ cleaned = <<>>
    /\ cleanIdx = 0
    /\ cleanPc = "idle"
    /\ dateParts = <<>>

\* clean_fields(fields, field_meta) is called: the first field is declared a
\* date, the others are as OtherEntries has them.
InitClean ==
    /\ dateParts \in DateParts
    /\ \E n \in 1..MaxCleanFields :
         \E others \in [2..n -> OtherEntries] :
            /\ cfFields = [i \in 1..n |->
                            IF i = 1 THEN <<FieldKeys[1], DateText(dateParts)>>
                            ELSE <<FieldKeys[i], others[i][1]>>]
            /\ field_meta =
                   SelectSeq([i \in 1..n |->
                                 IF i = 1 THEN <<FieldKeys[1], "date">>
                                 ELSE <<FieldKeys[i], others[i][2]>>],
                             LAMBDA e : e[2] # "none")
    /\ cleaned = <<>>
    /\ cleanIdx = 1
    /\ cleanPc = "loop"

\* clean_fields: one iteration of `for key, value in fields.items()`.
CleanFieldsIterationStep ==
    /\ cleanPc = "loop"
    /\ cleanIdx <= Len(cfFields)
    /\ LET key == cfFields[cleanIdx][1]
           value == Strip(cfFields[cleanIdx][2])
       IN IF ~DictHas(field_meta, key)
          THEN cleaned' = cleaned
          ELSE LET r == CleanValue(value, DictGet(field_meta, key))
               IN cleaned' = IF r.ok THEN DictPut(cleaned, key, r.value) ELSE cleaned
    /\ cleanIdx' = cleanIdx + 1
    /\ UNCHANGED <<cfFields, field_meta, cleanPc, dateParts>>

CleanFieldsIteration == CleanFieldsIterationStep /\ UNCHANGED notCleanVars

\* clean_fields: `return cleaned`.
CleanFieldsReturnStep ==
    /\ cleanPc = "loop"
    /\ cleanIdx > Len(cfFields)
    /\ cleanPc' = "done"
    /\ UNCHANGED <<cfFields, field_meta, cleaned, cleanIdx, dateParts>>

CleanFieldsReturn == CleanFieldsReturnStep /\ UNCHANGED notCleanVars

\* ------------------------------------------------------------------ field mapping
\* to_snake_case: re.sub(r"[^a-z0-9]+", "_", text.lower()).strip("_")
IsSnakeChar(c) == IsLowerChar(c) \/ IsDigit(c)
RECURSIVE DropNonSnake(_)
DropNonSnake(s) ==
    IF s # <<>> /\ ~IsSnakeChar(Head(s)) THEN DropNonSnake(Tail(s)) ELSE s
RECURSIVE SubRuns(_)
SubRuns(s) ==
    IF s = <<>> THEN <<>>
    ELSE IF IsSnakeChar(Head(s)) THEN <<Head(s)>> \o SubRuns(Tail(s))
    ELSE <<"_">> \o SubRuns(DropNonSnake(Tail(s)))
StripUnderscores(s) ==
    LET kept == { i \in 1..Len(s) : s[i] # "_" }
    IN IF kept = {} THEN <<>>
       ELSE SubSeq(s, CHOOSE i \in kept : \A j \in kept : i <= j,
                      CHOOSE i \in kept : \A j \in kept : j <= i)
to_snake_case(text) == StripUnderscores(SubRuns(Lower(text)))

FieldNameTaxId == <<"T", "a", "x", " ", "I", "d">>
FieldNameTaxIdSnake == <<"t", "a", "x", "_", "i", "d">>
FieldNameFee == <<"F", "e", "e">>
MapApiNamePool == { FieldNameTaxId, FieldNameTaxIdSnake, FieldNameFee }
\* The API's custom fields: distinct names, ids in list order.
MapApiColls ==
    { [i \in 1..Len(ns) |-> [id |-> i, name |-> ns[i]]] :
        ns \in { q \in SeqsUpTo(MapApiNamePool, MaxMapApiFields) :
                   \A i, j \in 1..Len(q) : i # j => q[i] # q[j] } }
\* The entries of field_mapping.json: a key and the name of its custom field.
MappingKeys == <<"tax_id", "fee", "net">>
MappingNames(i) == IF i = 1 THEN { FieldNameTaxId, FieldNameTaxIdSnake } ELSE { FieldNameFee }
InitMappings ==
    UNION { { [i \in 1..n |-> [key |-> MappingKeys[i], name |-> names[i], id |-> 0]] :
                names \in { q \in [1..n -> MapApiNamePool] :
                              \A i \in 1..n : q[i] \in MappingNames(i) } } :
            n \in 1..MaxMappingEntries }
\* The keys of a classification result.
ResultKeySeqs ==
    { <<>>, <<"tax_id">>, <<"fee">>, <<"tax_id", "fee">>, <<"tax_id", "analysis">>,
      <<"analysis">>, <<"fee", "tax_id", "analysis">>, <<"other">> }

\* The field mapping steps are not part of the run.
IdleMapping ==
    /\ mapApi = <<>>
    /\ mapApiAtStart = <<>>
    /\ field_mapping = <<>>
    /\ matchedIds = <<>>
    /\ json_data = <<>>
    /\ mapIdx = 0
    /\ mapPosts = <<>>
    /\ custom_fields = <<>>
    /\ mapRaised = "none"
    /\ mapPc = "idle"

\* main has the parsed classification result and the field mapping as loaded.
InitMapping ==
    /\ mapApi \in MapApiColls
    /\ mapApiAtStart = mapApi
    /\ field_mapping \in InitMappings
    /\ matchedIds = [i \in 1..Len(field_mapping) |-> 0]
    /\ json_data \in ResultKeySeqs
    /\ mapIdx = 1
    /\ mapPosts = <<>>
    /\ custom_fields = <<>>
    /\ mapRaised = "none"
    /\ mapPc = "populate"

\* fetch_custom_fields: one GET without paging, keyed by snake-cased name; a
\* later field of the same key replaces an earlier one.
FetchCustomFields(coll) ==
    DictFrom([i \in 1..Len(FirstPage(coll)) |->
                 <<to_snake_case(FirstPage(coll)[i].name), FirstPage(coll)[i].id>>], <<>>)

\* populate_field_mapping_with_ids, one entry: a match by snake-cased name
\* stores the id and replaces the name with the snake-cased one.
Populated(entry, normalized_custom_fields) ==
    IF DictHas(normalized_custom_fields, to_snake_case(entry.name))
    THEN [entry EXCEPT !.id = DictGet(normalized_custom_fields, to_snake_case(entry.name)),
                       !.name = to_snake_case(entry.name)]
    ELSE entry

\* populate_field_mapping_with_ids: any exception ends the process (sys.exit(1)).
PopulateFieldMappingStep(ok) ==
    /\ IF ok
       THEN /\ field_mapping' =
                 [i \in 1..Len(field_mapping) |->
                     Populated(field_mapping[i], FetchCustomFields(mapApi))]
            /\ matchedIds' =
                 [i \in 1..Len(field_mapping) |->
                     Populated(field_mapping[i], FetchCustomFields(mapApi)).id]
            /\ mapPc' = "ensure"
       ELSE /\ mapPc' = "exited"
            /\ UNCHANGED <<field_mapping, matchedIds>>
    /\ UNCHANGED <<mapApi, mapApiAtStart, json_data, mapIdx, mapPosts, custom_fields,
                   mapRaised>>

PopulateFieldMapping ==
    /\ mapPc = "populate"
    /\ \E ok \in BOOLEAN : PopulateFieldMappingStep(ok)
    /\ UNCHANGED notMappingVars

MapPostStatuses(name) ==
    {"created", "error"} \cup (IF ApiHasName(mapApi, name) THEN {"unique"} ELSE {})

\* ensure_custom_fields, one entry: ensure_custom_field_exists(name, data_type)
\* queries ?name__iexact=<name> and POSTs the field when the result is empty;
\* its return value is dropped and its exception caught, the loop goes on.
EnsureCustomFieldStep(getOk, status) ==
    LET entry == field_mapping[mapIdx]
        results == FieldQueryResults(mapApi, entry.name)
        posts == getOk /\ results = <<>>
    IN  /\ mapPosts' =
             IF posts
             THEN Append(mapPosts, [entry |-> mapIdx, name |-> entry.name, status |-> status])
             ELSE mapPosts
        /\ mapApi' =
             IF posts /\ status = "created"
             THEN Append(mapApi, [id |-> NextId(mapApi), name |-> entry.name])
             ELSE mapApi
        /\ mapIdx' = mapIdx + 1
        /\ mapPc' = IF mapIdx = Len(field_mapping) THEN "update" ELSE "ensure"
        /\ UNCHANGED <<mapApiAtStart, field_mapping, matchedIds, json_data, custom_fields,
                       mapRaised>>

EnsureCustomField ==
    /\ mapPc = "ensure"
    /\ \E getOk \in BOOLEAN :
         \E status \in MapPostStatuses(field_mapping[mapIdx].name) :
            EnsureCustomFieldStep(getOk, status)
    /\ UNCHANGED notMappingVars

\* update_document_with_json: the keys of the result the payload is built from
PayloadKeys ==
    SelectSeq(json_data,
              LAMBDA k : /\ \E i \in 1..Len(field_mapping) : field_mapping[i].key = k
                         /\ k \notin {"detected_services", "analysis"})
EntryOf(k) == field_mapping[CHOOSE i \in 1..Len(field_mapping) : field_mapping[i].key = k]

\* update_document_with_json: field_mapping[key]["id"] raises KeyError for an
\* entry without "id"; a non-empty payload is PATCHed, the notes are POSTed
\* when the result has an analysis; a failed request raises.
UpdateDocumentWithJsonStep(patchOk, notesOk) ==
    /\ IF \E i \in 1..Len(PayloadKeys) : EntryOf(PayloadKeys[i]).id = 0
       THEN /\ mapRaised' = "KeyError"
            /\ mapPc' = "raised"
            /\ custom_fields' = <<>>
       ELSE IF PayloadKeys # <<>> /\ ~patchOk
       THEN /\ mapRaised' = "HTTPError"
            /\ mapPc' = "raised"
            /\ custom_fields' = <<>>
       ELSE /\ custom_fields' =
                 [i \in 1..Len(PayloadKeys) |->
                     [field |-> EntryOf(PayloadKeys[i]).id, key |-> PayloadKeys[i]]]
            /\ IF (\E i \in 1..Len(json_data) : json_data[i] = "analysis") /\ ~notesOk
               THEN mapRaised' = "HTTPError" /\ mapPc' = "raised"
               ELSE mapRaised' = "none" /\ mapPc' = "done"
    /\ UNCHANGED <<mapApi, mapApiAtStart, field_mapping, matchedIds, json_data, mapIdx,
                   mapPosts>>

UpdateDocumentWithJson ==
    /\ mapPc = "update"
    /\ \E patchOk, notesOk \in BOOLEAN : UpdateDocumentWithJsonStep(patchOk, notesOk)
    /\ UNCHANGED notMappingVars

\* ------------------------------------------------------------------ postprocess_all
GptTagName ==
    <<"g", "p", "t", "-", "c", "o", "r", "r", "e", "s", "p", "o", "n", "d", "e", "n", "t">>
UnableTagName ==
    GptTagName \o <<"-", "u", "n", "a", "b", "l", "e", "-", "t", "o", "-",
                    "d", "e", "t", "e", "r", "m", "i", "n", "e">>
\* What determine_correspondent_with_openai returns for a document: the status
\* and the "correspondent" of the response: the id of the correspondent of
\* that name (1, 2), 0 when the response has none, -1 for a name no
\* correspondent has, -2 for the sentence of line 379, which none has either.
AiResponses ==
    { [status |-> "match", correspondent |-> 1],
      [status |-> "match", correspondent |-> 0],
      [status |-> "suggest_new", correspondent |-> -1],
      [status |-> "suggest_new", correspondent |-> -2],
      [status |-> "no_match", correspondent |-> 0],
      [status |-> "error", correspondent |-> 0],
      [status |-> "unexpected", correspondent |-> 0] }
DocInputs ==
    { [ocr |-> TRUE, ai |-> r] : r \in AiResponses }
    \cup { [ocr |-> FALSE, ai |-> [status |-> "error", correspondent |-> 0]] }
InitCorrIds == {1, 2}

\* The requests of postprocess.main, one of which may fail.
ProcessRequests ==
    { "none", "details", "ocr", "correspondents", "create_correspondent", "update",
      "tags", "create_tag", "add_tag", "resolve_tag" }

\* postprocess.fetch_tags: one GET without paging, keyed by lower-cased name
FetchTagsLower(coll) ==
    DictFrom([i \in 1..Len(FirstPage(coll)) |->
                 <<Lower(FirstPage(coll)[i].name), FirstPage(coll)[i].id>>], <<>>)

\* The "tags" list of a document as the API renders it.
RenderTags(S, kind) == [i \in 1..Cardinality(S) |-> TagItem(kind, SortedSeq(S)[i])]
\* postprocess_all.main: document_tag_ids, the ids of the objects that have one
\* and the items that are ints
DocumentTagIds(items) ==
    { items[i].id : i \in { j \in 1..Len(items) : items[j].kind \in {"id", "dict"} } }

\* How a call of postprocess.main ends, and the API's state after it.
Ended(end, doc, coll, corrIds) == [end |-> end, doc |-> doc, tags |-> coll, corrIds |-> corrIds]

\* utils.api_helpers.fetch_or_create_tag for the unable-to-determine tag,
\* followed by the subscript ["id"] of the int it returns (lines 320 and 392):
\* a TypeError when the tag was found or created, the resolver's exception
\* otherwise.
UnableToDetermine(doc, coll, corrIds, fail) ==
    IF fail = "resolve_tag" THEN Ended("Exception", doc, coll, corrIds)
    ELSE IF \E i \in 1..Len(FirstPage(coll)) :
                Lower(Strip(FirstPage(coll)[i].name)) = Lower(Strip(UnableTagName))
    THEN Ended("TypeError", doc, coll, corrIds)
    ELSE IF ApiHasName(coll, UnableTagName)
    THEN Ended("Exception", doc, coll, corrIds)
    ELSE Ended("TypeError", doc,
               Append(coll, [id |-> NextId(coll), name |-> UnableTagName]), corrIds)

\* postprocess.main from line 340 on, correspondent being the one looked up or
\* created: the document is updated and tagged "gpt-correspondent" only when
\* its correspondent differs; then the comparison of the name (line 377).
UpdateAndTag(doc, inp, coll, corrIds, fail, correspondent) ==
    LET updated == [doc EXCEPT !.correspondent = correspondent]
        tagsByName == FetchTagsLower(coll)
        found == DictHas(tagsByName, Lower(GptTagName))
        created == Append(coll, [id |-> NextId(coll), name |-> GptTagName])
        coll2 == IF found THEN coll ELSE created
        tagId == IF found THEN DictGet(tagsByName, Lower(GptTagName)) ELSE NextId(coll)
        tagged == [updated EXCEPT !.tags = @ \cup {tagId}]
        last(d, c) == IF inp.ai.correspondent = -2
                      THEN UnableToDetermine(d, c, corrIds, fail)
                      ELSE Ended("returned", d, c, corrIds)
    IN IF doc.correspondent = correspondent THEN last(doc, coll)
       ELSE IF fail = "update" THEN Ended("HTTPError", doc, coll, corrIds)
       ELSE IF fail = "tags" THEN Ended("HTTPError", updated, coll, corrIds)
       ELSE IF ~found /\ (fail = "create_tag" \/ ApiHasName(coll, GptTagName))
       THEN Ended("HTTPError", updated, coll, corrIds)
       ELSE IF tagId \in doc.tags THEN last(updated, coll2)
       ELSE IF fail = "add_tag" THEN Ended("HTTPError", updated, coll2, corrIds)
       ELSE last(tagged, coll2)

\* postprocess.main(doc_id), with the request that fails, if one does.
ProcessDocument(doc, inp, coll, corrIds, fail) ==
    IF fail \in {"details", "ocr"} THEN Ended("HTTPError", doc, coll, corrIds)
    ELSE IF ~inp.ocr THEN Ended("exit0", doc, coll, corrIds)
    ELSE IF fail = "correspondents" THEN Ended("HTTPError", doc, coll, corrIds)
    ELSE IF inp.ai.status = "no_match" THEN UnableToDetermine(doc, coll, corrIds, fail)
    ELSE IF inp.ai.status \notin {"match", "suggest_new"}
    THEN Ended("exit1", doc, coll, corrIds)
    ELSE IF inp.ai.correspondent = 0 THEN Ended("exit1", doc, coll, corrIds)
    ELSE IF inp.ai.correspondent \in corrIds
    THEN UpdateAndTag(doc, inp, coll, corrIds, fail, inp.ai.correspondent)
    ELSE IF fail = "create_correspondent" THEN Ended("HTTPError", doc, coll, corrIds)
    ELSE LET new == 1 + (CHOOSE m \in corrIds : \A c \in corrIds : c <= m)
         IN UpdateAndTag(doc, inp, coll, corrIds \cup {new}, fail, new)

\* postprocess_all is not part of the run.
IdleBatch ==
    /\ bTags = <<>>
    /\ bCorrIds = {}
    /\ bDocs = <<>>
    /\ bDocsAtStart = <<>>
    /\ bInputs = <<>>
    /\ bTagKind = "id"
    /\ documentsFetched = <<>>
    /\ gpt_tag_id = 0
    /\ bIdx = 0
    /\ bCalls = <<>>
    /\ bReturned = <<>>
    /\ bEnd = <<>>
    /\ bPc = "idle"

\* main starts: the API holds the "gpt-correspondent" tag at position g and
\* the "gpt-correspondent-unable-to-determine" tag at position u (0: absent)
\* among other tags, two correspondents, and the documents.
InitBatch ==
    /\ \E n \in 0..MaxBatchTags, g \in 0..MaxBatchTags, u \in 0..MaxBatchTags :
         /\ g <= n /\ u <= n /\ (g = 0 \/ g # u)
         /\ bTags = [i \in 1..n |-> [id |-> i,
                                     name |-> IF i = g THEN GptTagName
                                              ELSE IF i = u THEN UnableTagName
                                              ELSE <<"o", DigitChars[i + 1]>>]]
    /\ bCorrIds = InitCorrIds
    /\ \E n \in 0..MaxBatchDocs :
         /\ bDocs \in { [i \in 1..n |-> [id |-> i, tags |-> ts[i], correspondent |-> cs[i]]] :
                          ts \in [1..n -> SUBSET (1..Len(bTags))], cs \in [1..n -> 0..1] }
         /\ bInputs \in [1..n -> DocInputs]
    /\ bDocsAtStart = bDocs
    /\ bTagKind \in {"id", "dict"}
    /\ documentsFetched = <<>>
    /\ gpt_tag_id = 0
    /\ bIdx = 0
    /\ bCalls = <<>>
    /\ bReturned = <<>>
    /\ bEnd = <<>>
    /\ bPc = "start"

\* main up to the loop: fetch_all_documents follows the pages, fetch_tags reads
\* one page; a failed request raises, a missing tag exits with status 1.
BatchStartStep(docsOk, tagsOk) ==
    /\ IF ~docsOk \/ ~tagsOk
       THEN /\ bPc' = "raised"
            /\ UNCHANGED <<documentsFetched, gpt_tag_id, bIdx>>
       ELSE /\ documentsFetched' =
                 [i \in 1..Len(bDocs) |->
                     [id |-> bDocs[i].id, tags |-> RenderTags(bDocs[i].tags, bTagKind)]]
            /\ IF DictHas(FetchTagsLower(bTags), GptTagName)
               THEN /\ gpt_tag_id' = DictGet(FetchTagsLower(bTags), GptTagName)
                    /\ bIdx' = 1
                    /\ bPc' = "loop"
               ELSE /\ bPc' = "exit1"
                    /\ UNCHANGED <<gpt_tag_id, bIdx>>
    /\ UNCHANGED <<bTags, bCorrIds, bDocs, bDocsAtStart, bInputs, bTagKind, bCalls,
                   bReturned, bEnd>>

BatchStart ==
    /\ bPc = "start"
    /\ \E docsOk, tagsOk \in BOOLEAN : BatchStartStep(docsOk, tagsOk)
    /\ UNCHANGED notBatchVars

\* main, the loop: a document that has the tag is skipped.
BatchSkipStep ==
    /\ gpt_tag_id \in DocumentTagIds(documentsFetched[bIdx].tags)
    /\ bIdx' = bIdx + 1
    /\ UNCHANGED <<bTags, bCorrIds, bDocs, bDocsAtStart, bInputs, bTagKind,
                   documentsFetched, gpt_tag_id, bCalls, bReturned, bEnd, bPc>>

BatchSkip ==
    /\ bPc = "loop"
    /\ bIdx <= Len(documentsFetched)
    /\ BatchSkipStep
    /\ UNCHANGED notBatchVars

\* main, the loop: process_document(document_id) for a document without the
\* tag; nothing is caught, so a SystemExit or an exception of the call ends main.
BatchProcessStep(fail) ==
    LET id == documentsFetched[bIdx].id
        r == ProcessDocument(bDocs[id], bInputs[id], bTags, bCorrIds, fail)
    IN  /\ gpt_tag_id \notin DocumentTagIds(documentsFetched[bIdx].tags)
        /\ bCalls' = Append(bCalls, id)
        /\ bEnd' = Append(bEnd, r.end)
        /\ bDocs' = [bDocs EXCEPT ![id] = r.doc]
        /\ bTags' = r.tags
        /\ bCorrIds' = r.corrIds
        /\ IF r.end = "returned"
           THEN /\ bReturned' = Append(bReturned, id)
                /\ bIdx' = bIdx + 1
                /\ bPc' = "loop"
           ELSE /\ bReturned' = bReturned
                /\ bIdx' = bIdx
                /\ bPc' = IF r.end \in {"exit0", "exit1"} THEN r.end ELSE "raised"
        /\ UNCHANGED <<bDocsAtStart, bInputs, bTagKind, documentsFetched, gpt_tag_id>>

BatchProcess ==
    /\ bPc = "loop"
    /\ bIdx <= Len(documentsFetched)
    /\ \E fail \in ProcessRequests : BatchProcessStep(fail)
    /\ UNCHANGED notBatchVars

\* main: the loop is over.
BatchCompleteStep ==
    /\ bIdx > Len(documentsFetched)
    /\ bPc' = "done"
    /\ UNCHANGED <<bTags, bCorrIds, bDocs, bDocsAtStart, bInputs, bTagKind,
                   documentsFetched, gpt_tag_id, bIdx, bCalls, bReturned, bEnd>>

BatchComplete ==
    /\ bPc = "loop"
    /\ BatchCompleteStep
    /\ UNCHANGED notBatchVars

\* ------------------------------------------------------------------ specifications
\* One run resolves either a tag name twice or a custom field name once.
InitResolve ==
    /\ (InitTags /\ IdleFields) \/ (IdleTags /\ InitFields)
    /\ IdleCorr
    /\ IdleMerge
    /\ IdleRetry
    /\ IdleAddTag
    /\ IdleFetch
    /\ IdleClean
    /\ IdleMapping
    /\ IdleBatch

NextResolve ==
    \/ TagFetch
    \/ TagCreate
    \/ RacerCreateTag
    \/ FieldQuery
    \/ FieldCreate
    \/ RacerCreateField

SpecResolve == InitResolve /\ [][NextResolve]_vars

\* One run of postprocess.main from its fetch of the correspondents to its use
\* of the resolved correspondent, with other clients of the API.
InitCorrRun ==
    IdleTags /\ IdleFields /\ InitCorr /\ IdleMerge /\ IdleRetry /\ IdleAddTag
    /\ IdleFetch
    /\ IdleClean
    /\ IdleMapping
    /\ IdleBatch

NextCorr ==
    \/ MainFetchCorrespondents
    \/ CreateCorrespondentPost
    \/ CreateCorrespondentRefetch
    \/ MainUseCorrespondent
    \/ RacerCreateCorr

SpecCorr == InitCorrRun /\ [][NextCorr]_vars

\* One run of merge_duplicates.main, no other client writing.
InitMergeRun ==
    IdleTags /\ IdleFields /\ IdleCorr /\ InitMerge /\ IdleRetry /\ IdleAddTag
    /\ IdleFetch
    /\ IdleClean
    /\ IdleMapping
    /\ IdleBatch

NextMerge ==
    \/ FetchAllCorrespondents
    \/ FetchDocumentsByCorrespondent
    \/ UpdateDocumentCorrespondent
    \/ DeleteLoser
    \/ UpdateCorrespondentName

SpecMerge == InitMergeRun /\ [][NextMerge]_vars

\* One invocation of analyze_document_with_openai.
InitRetryRun ==
    IdleTags /\ IdleFields /\ IdleCorr /\ IdleMerge /\ InitRetry /\ IdleAddTag
    /\ IdleFetch
    /\ IdleClean
    /\ IdleMapping
    /\ IdleBatch

NextRetry ==
    \/ LoadSchema
    \/ Attempt
    \/ ResolveFailureTag
    \/ AttachFailureTag

SpecRetry == InitRetryRun /\ [][NextRetry]_vars

\* Two calls of add_tag_to_document for one document, no other client writing.
InitAddTagRun ==
    IdleTags /\ IdleFields /\ IdleCorr /\ IdleMerge /\ IdleRetry /\ InitAddTag
    /\ IdleFetch
    /\ IdleClean
    /\ IdleMapping
    /\ IdleBatch

NextAddTag ==
    \/ AddTagGet
    \/ AddTagPatch

SpecAddTag == InitAddTagRun /\ [][NextAddTag]_vars

\* One call of a list fetcher, no other client writing.
InitFetchRun ==
    IdleTags /\ IdleFields /\ IdleCorr /\ IdleMerge /\ IdleRetry /\ IdleAddTag
    /\ InitFetch
    /\ IdleClean
    /\ IdleMapping
    /\ IdleBatch

NextFetch ==
    \/ PagedFetch
    \/ HelperFetch

SpecFetch == InitFetchRun /\ [][NextFetch]_vars

\* One call of post.clean_fields.
InitCleanRun ==
    IdleTags /\ IdleFields /\ IdleCorr /\ IdleMerge /\ IdleRetry /\ IdleAddTag
    /\ IdleFetch
    /\ InitClean
    /\ IdleMapping
    /\ IdleBatch

NextClean ==
    \/ CleanFieldsIteration
    \/ CleanFieldsReturn

SpecClean == InitCleanRun /\ [][NextClean]_vars

\* One run of ocr_tax_relief_checker.main from the field mapping steps on, no
\* other client writing.
InitMappingRun ==
    IdleTags /\ IdleFields /\ IdleCorr /\ IdleMerge /\ IdleRetry /\ IdleAddTag
    /\ IdleFetch /\ IdleClean
    /\ InitMapping
    /\ IdleBatch

NextMapping ==
    \/ PopulateFieldMapping
    \/ EnsureCustomField
    \/ UpdateDocumentWithJson

SpecMapping == InitMappingRun /\ [][NextMapping]_vars

\* One run of postprocess_all.main, no other client writing.
InitBatchRun ==
    IdleTags /\ IdleFields /\ IdleCorr /\ IdleMerge /\ IdleRetry /\ IdleAddTag
    /\ IdleFetch /\ IdleClean /\ IdleMapping
    /\ InitBatch

NextBatch ==
    \/ BatchStart
    \/ BatchSkip
    \/ BatchProcess
    \/ BatchComplete

SpecBatch == InitBatchRun /\ [][NextBatch]_vars

\* ------------------------------------------------------------------ claims: tags
BothTagCallsDone == tpc = "done"
NoTagRequestFailed == \A i \in 1..2 : ~tagReqFail[i]

\* C1: two sequential calls fetch_or_create_tag(N), every request succeeding
\* and no other client writing, return the same id, and the second call issues
\* no POST /api/tags/.
C1_TwoCallsSameIdNoSecondPost ==
    (/\ BothTagCallsDone
     /\ callNames[1] = callNames[2]
     /\ NoTagRequestFailed
     /\ tagRacerIds = {})
    => /\ tagOutcome[1] = "returned" /\ tagOutcome[2] = "returned"
       /\ tagResult[1] = tagResult[2]
       /\ tagPosts[2] = 0

\* The tags whose name is "Tag".
TagsNamedTag == { i \in 1..Len(tagsAtStart) : tagsAtStart[i].name = TagName }

\* C2: if a tag named "Tag" exists, fetch_or_create_tag("  Tag  ") and
\* fetch_or_create_tag("tag") return that tag's id and issue no POST.  Stated
\* for the runs in which "Tag" is, when the calls start, the only tag of that
\* normalized name, no request fails and no other client writes.
C2_NormalizedLookupFindsTag ==
    (/\ BothTagCallsDone
     /\ callNames = <<TagNamePadded, TagNameLower>>
     /\ NoTagRequestFailed
     /\ tagRacerIds = {}
     /\ Cardinality(TagsNamedTag) = 1
     /\ \A i \in 1..Len(tagsAtStart) :
          ApiNorm(tagsAtStart[i].name) = ApiNorm(TagName) => i \in TagsNamedTag)
    => \A c \in 1..2 :
         /\ tagOutcome[c] = "returned"
         /\ tagResult[c] = tagsAtStart[CHOOSE i \in TagsNamedTag : TRUE].id
         /\ tagPosts[c] = 0

\* The tag call c met a uniqueness violation caused by a concurrent creation:
\* no tag of the name existed when the calls started, another client created
\* one, and the POST of the call was refused as a duplicate.
TagRaceLost(c) ==
    /\ tpc # "idle"
    /\ tagOutcome[c] # "pending"
    /\ tagPostStatus[c] = "unique"
    /\ ~tagGetFail[c]
    /\ ~ApiHasName(tagsAtStart, callNames[c])
    /\ \E i \in 1..Len(tags) :
         tags[i].id \in tagRacerIds /\ ApiNorm(tags[i].name) = ApiNorm(callNames[c])

FieldRaceLost ==
    /\ fpc = "done"
    /\ fieldPostStatus = "unique"
    /\ ~ApiHasName(fieldsAtStart, fieldName)
    /\ \E i \in 1..Len(fields) :
         fields[i].id \in fieldRacerIds /\ ApiNorm(fields[i].name) = ApiNorm(fieldName)

\* C4: when the POST of fetch_or_create_tag or of ensure_custom_field_exists
\* fails with a uniqueness violation because the resource was created
\* concurrently, the resolver returns the id of the now-existing resource
\* instead of failing.
C4_TagAndFieldRaceRecovered ==
    /\ \A c \in 1..2 :
         TagRaceLost(c) =>
           /\ tagOutcome[c] = "returned"
           /\ \E i \in 1..Len(tags) :
                tags[i].id = tagResult[c] /\ ApiNorm(tags[i].name) = ApiNorm(callNames[c])
    /\ FieldRaceLost =>
           /\ fieldOutcome = "returned"
           /\ \E i \in 1..Len(fields) :
                fields[i].id = fieldResult /\ ApiNorm(fields[i].name) = ApiNorm(fieldName)

\* ------------------------------------------------------------------ claims: correspondents
\* The correspondents whose lower-cased name is that of cName.
SameNameCorrs == { i \in 1..Len(corrs) : Lower(corrs[i].name) = Lower(cName) }

\* One other client created a correspondent of the same name (compared
\* case-insensitively) after main's fetch and before the POST, the POST was
\* refused with a 400 that reports the duplicate, and the re-fetch succeeded.
CorrRaceLost ==
    /\ cpc \in {"use", "done"}
    /\ cPostStatus \in {"exists", "violates"}
    /\ Cardinality(cRacerIds) = 1
    /\ cRacerPhase = "post"
    /\ \E i \in SameNameCorrs : corrs[i].id \in cRacerIds
    /\ cRefetchOk

\* C3: create_correspondent tolerates one racing creator: after the refused
\* POST it re-fetches once and returns the existing correspondent, and exactly
\* one correspondent of that name exists afterwards.
C3_OneRacingCreatorTolerated ==
    CorrRaceLost =>
        /\ cOutcome = "returned"
        /\ cResult.id \in cRacerIds
        /\ Lower(cResult.name) = Lower(cName)
        /\ cRefetches = 1
        /\ cPosts = 1
        /\ Cardinality(SameNameCorrs) = 1

\* C3 witness: the race was lost and the racer's correspondent was returned.
C3_Witness == CorrRaceLost /\ cOutcome = "returned" /\ cMainDeref = "ok"

\* C5: create_correspondent never returns None (after a refused POST whose
\* re-fetch holds no correspondent of the name it raises), so main never
\* subscripts a missing correspondent.
C5_NeverReturnsNone ==
    /\ cOutcome # "returnedNone"
    /\ cMainDeref # "typeError"

\* ------------------------------------------------------------------ claims: merge
StartCorrs == { mCorrsAtStart[i] : i \in 1..Len(mCorrsAtStart) }
NowIds == { mCorrs[i].id : i \in 1..Len(mCorrs) }
\* The correspondents that shared c's trimmed, lower-cased name at the start.
DupGroup(c) == { d \in StartCorrs : Lower(Strip(d.name)) = Lower(Strip(c.name)) }
HasDuplicates(c) == Cardinality(DupGroup(c)) > 1
MinIdOf(group) == CHOOSE m \in { d.id : d \in group } : \A d \in group : m <= d.id
IsSurvivor(c) == HasDuplicates(c) /\ c.id = MinIdOf(DupGroup(c))
IsLoser(c) == HasDuplicates(c) /\ c.id # MinIdOf(DupGroup(c))
LogIdx == 1..Len(mLog)
DeleteIssued(id) == \E k \in LogIdx : mLog[k].op = "DELETE correspondent" /\ mLog[k].id = id
DeleteDone(id) ==
    \E k \in LogIdx : mLog[k].op = "DELETE correspondent" /\ mLog[k].id = id /\ mLog[k].ok

\* C6: in every group of more than one correspondent sharing a trimmed,
\* lower-cased name, the member of minimum id is never deleted, and when the
\* run completes every other member has been deleted by a DELETE.
C6_MinIdSurvivesOthersDeleted ==
    \A c \in StartCorrs :
        LET group == DupGroup(c)
            survivor == c.id = MinIdOf(group)
        IN  Cardinality(group) > 1 =>
              /\ survivor => ~DeleteIssued(c.id) /\ c.id \in NowIds
              /\ (~survivor /\ mpos.pc = "done") =>
                    DeleteDone(c.id) /\ c.id \notin NowIds

\* C6 witness: a completed run over a group of three whose minimum id was not
\* the first of the list.
C6_Witness ==
    /\ mpos.pc = "done"
    /\ Len(mCorrsAtStart) >= 3
    /\ Cardinality(DupGroup(mCorrsAtStart[1])) = 3
    /\ IsLoser(mCorrsAtStart[1])
    /\ Cardinality({ c \in StartCorrs : DeleteDone(c.id) }) = 2

\* The correspondent of the id at the start, and the survivor of its group.
StartCorr(id) == CHOOSE c \in StartCorrs : c.id = id
SurvivorIdOf(id) == MinIdOf(DupGroup(StartCorr(id)))
SeqRange(q) == { q[i] : i \in 1..Len(q) }

\* C7: a DELETE of a loser is issued only after a successful PATCH has
\* re-pointed every document fetched for that loser to the survivor, and no
\* DELETE of a loser precedes the PATCH of one of its documents.
C7_DeleteOnlyAfterRepoint ==
    \A k \in LogIdx :
        mLog[k].op = "DELETE correspondent" =>
            /\ \E j \in 1..(k - 1) :
                 mLog[j].op = "GET documents" /\ mLog[j].id = mLog[k].id /\ mLog[j].ok
            /\ \A j \in 1..(k - 1) :
                 (mLog[j].op = "GET documents" /\ mLog[j].id = mLog[k].id /\ mLog[j].ok) =>
                    \A d \in SeqRange(mLog[j].arg) :
                       \E q \in (j + 1)..(k - 1) :
                          /\ mLog[q].op = "PATCH document"
                          /\ mLog[q].id = d
                          /\ mLog[q].ok
                          /\ mLog[q].arg = SurvivorIdOf(mLog[k].id)
            /\ \A q \in (k + 1)..Len(mLog) :
                 mLog[q].op = "PATCH document" => mDocsAtStart[mLog[q].id] # mLog[k].id

\* C7 witness: a loser with two documents has been deleted.
C7_Witness ==
    \E k \in LogIdx :
        /\ mLog[k].op = "DELETE correspondent"
        /\ mLog[k].ok
        /\ \A d \in 1..MaxMergeDocs : mDocsAtStart[d] = mLog[k].id

\* The correspondents of the example: ids 5, 2, 9 named "Acme", "acme ", "ACME".
AcmeExample ==
    << [id |-> 5, name |-> NameAcme], [id |-> 2, name |-> NameAcmeLowerSp],
       [id |-> 9, name |-> NameAcmeUpper] >>

\* C8: for the correspondents of the example the survivor, id 2, ends with
\* the name "Acme", and the name the rename PATCH sends, if any, is "Acme".
C8_SurvivorNamedAcme ==
    (mCorrsAtStart = AcmeExample /\ mpos.pc = "done") =>
        /\ \E i \in 1..Len(mCorrs) : mCorrs[i].id = 2 /\ mCorrs[i].name = NameAcme
        /\ \A k \in LogIdx :
             mLog[k].op = "PATCH correspondent" => mLog[k].arg = NameAcme

\* C9: the first request that returns a non-success status ends the run: no
\* request follows it.
C9_FirstFailureEndsRun ==
    /\ \A k \in LogIdx : ~mLog[k].ok => k = Len(mLog)
    /\ (mLog # <<>> /\ ~mLog[Len(mLog)].ok) => mpos.pc = "aborted"
    /\ mpos.pc = "aborted" => ~ENABLED NextMerge

\* C9 witness: the run ended on a failed PATCH of a document of the first
\* duplicate group, with a later group of duplicates left as it was.
C9_Witness ==
    /\ mpos.pc = "aborted"
    /\ mLog[Len(mLog)].op = "PATCH document"
    /\ NextDupGroup(grouped, mpos.gi) # 0
    /\ \A c \in SeqRange(grouped[NextDupGroup(grouped, mpos.gi)][2]) : c.id \in NowIds

\* C24: at every point of a run, aborted runs included, no document refers to
\* a correspondent the run has deleted: every document that had a
\* correspondent still has one, and it is a correspondent the API holds.
C24_NoDocumentOfDeletedCorrespondent ==
    \A d \in DOMAIN mDocs :
        /\ mDocs[d] # 0 => mDocs[d] \in NowIds
        /\ mDocsAtStart[d] # 0 => mDocs[d] # 0
        /\ ~DeleteDone(mDocs[d])

\* C24 witness: the run was aborted by a failed request after it had deleted a
\* loser that two documents referred to.
C24_Witness ==
    /\ mpos.pc = "aborted"
    /\ \E c \in StartCorrs :
         /\ DeleteDone(c.id)
         /\ \A d \in 1..MaxMergeDocs : mDocsAtStart[d] = c.id

AllRequestsOk == \A k \in LogIdx : mLog[k].ok

\* C25: when the run completes with every request succeeding, no two of the
\* remaining correspondents share a trimmed, lower-cased name, and every
\* document that referred to a member of a group of duplicates refers to the
\* survivor of that group.
C25_CompletedRunLeavesNoDuplicates ==
    (mpos.pc = "done" /\ AllRequestsOk) =>
        /\ \A i, j \in 1..Len(mCorrs) :
              i # j => Lower(Strip(mCorrs[i].name)) # Lower(Strip(mCorrs[j].name))
        /\ \A d \in DOMAIN mDocs :
              (mDocsAtStart[d] # 0 /\ HasDuplicates(StartCorr(mDocsAtStart[d]))) =>
                  mDocs[d] = SurvivorIdOf(mDocsAtStart[d])

\* C25 witness: a completed run over two groups of duplicates, each with a
\* document that referred to its loser.
C25_Witness ==
    /\ mpos.pc = "done"
    /\ AllRequestsOk
    /\ Cardinality({ c \in StartCorrs : IsSurvivor(c) }) = 2
    /\ \A d \in 1..2 : mDocsAtStart[d] # 0
    /\ \A d \in 1..2 : IsLoser(StartCorr(mDocsAtStart[d]))
    /\ SurvivorIdOf(mDocsAtStart[1]) # SurvivorIdOf(mDocsAtStart[2])

\* a document that referred to no loser when the run started
RefersToNoLoser(d) == mDocsAtStart[d] = 0 \/ ~IsLoser(StartCorr(mDocsAtStart[d]))

\* C26: a correspondent whose trimmed, lower-cased name is unique is never
\* the object of a PATCH or DELETE and stays as it was; a document that
\* referred to no loser is never patched and keeps its correspondent; and
\* what a PATCH of a document writes is its correspondent, set to the
\* survivor of the loser it referred to.
C26_UniqueNamesAndOtherDocumentsUntouched ==
    /\ \A c \in StartCorrs :
          ~HasDuplicates(c) =>
              /\ c \in SeqRange(mCorrs)
              /\ \A k \in LogIdx :
                    mLog[k].op \in {"DELETE correspondent", "PATCH correspondent"}
                        => mLog[k].id # c.id
    /\ \A d \in DOMAIN mDocs :
          RefersToNoLoser(d) =>
              /\ mDocs[d] = mDocsAtStart[d]
              /\ \A k \in LogIdx : mLog[k].op = "PATCH document" => mLog[k].id # d
    /\ \A k \in LogIdx :
          (mLog[k].op = "PATCH document" /\ mLog[k].ok) =>
              mDocs[mLog[k].id] = mLog[k].arg

\* C26 witness: a completed run that merged a group of duplicates and left
\* alone a correspondent of unique name and the document that referred to it.
C26_Witness ==
    /\ mpos.pc = "done"
    /\ \E c \in StartCorrs : DeleteDone(c.id)
    /\ \E c \in StartCorrs :
         /\ ~HasDuplicates(c)
         /\ c.name = NameBo
         /\ mDocsAtStart[1] = c.id
         /\ mDocs[1] = c.id

\* ------------------------------------------------------------------ claims: retry
AllRateLimited == \A i \in 1..Len(rOutcomes) : rOutcomes[i] = "ratelimit"

\* C10: when every upstream call raises a rate-limit error, exactly
\* max_retries = 5 upstream calls are issued and the function then returns
\* None.
C10_AlwaysRateLimitedFiveCalls ==
    (schemaLoaded /\ AllRateLimited) =>
        /\ rCalls <= 5
        /\ rpc = "done" <=> rCalls = 5
        /\ rpc = "done" => rResult = "None"
        /\ rpc # "done" => ENABLED Attempt

\* C10 witness: five rate-limited calls, and the function has returned.
C10_Witness ==
    /\ rpc = "done"
    /\ rCalls = 5
    /\ AllRateLimited
    /\ rResult = "None"

LastOutcome == rOutcomes[Len(rOutcomes)]

\* C11: one invocation issues at most max_retries = 5 upstream calls, and a
\* further call follows only a rate-limit error: every call but the last one
\* ended in a rate-limit error, and after a completion (valid or not) or any
\* other error no call can follow.
C11_AtMostFiveCallsRetryOnlyOnRateLimit ==
    /\ rCalls <= 5
    /\ Len(rOutcomes) = rCalls
    /\ \A i \in 1..(Len(rOutcomes) - 1) : rOutcomes[i] = "ratelimit"
    /\ (rOutcomes # <<>> /\ LastOutcome # "ratelimit") => ~ENABLED Attempt

\* C11 witness: two rate-limit errors, then another error ended the invocation
\* at its third call.
C11_Witness ==
    /\ rpc = "done"
    /\ rCalls = 3
    /\ rOutcomes = <<"ratelimit", "ratelimit", "error">>

\* C12: when an upstream call raises an OpenAI error other than a rate-limit
\* error (a 428 included), the function issues no further call, does not
\* sleep for it, leaves the document's tags alone and returns None without
\* raising.
C12_OtherErrorReturnsNone ==
    (rOutcomes # <<>> /\ LastOutcome \in {"error428", "error", "errorNoStatus"}) =>
        /\ rpc = "done"
        /\ rResult = "None"
        /\ Len(rSleeps) = rCalls - 1
        /\ rDocPatches = <<>>
        /\ ~rTagged

FailureTagIds ==
    { rApiTags[i].id : i \in { j \in 1..Len(rApiTags) :
                                   NormTagName(rApiTags[j].name) = FailureTagName } }

\* C13: after a schema-invalid completion no further upstream call is issued,
\* and, the API failing no request, the function returns None with the failure
\* tag existing and attached to the document.
C13_SchemaFailureTagsDocument ==
    (rOutcomes # <<>> /\ LastOutcome = "invalid") =>
        /\ ~ENABLED Attempt
        /\ (rpc = "done" /\ ~rReqFail) =>
              /\ rResult = "None"
              /\ rTagId \in FailureTagIds
              /\ rTagId \in rDocTags

\* C14: an exception of fetch_or_create_tag or of add_tag_to_document in the
\* schema-invalid branch leaves analyze_document_with_openai: the result is
\* the exception, not None, and no upstream call follows.
C14_FailureTagExceptionPropagates ==
    rHelperRaised # "none" =>
        /\ rpc = "done"
        /\ rResult = "raised"
        /\ LastOutcome = "invalid"
        /\ rCalls = Len(rOutcomes)
        /\ ~ENABLED Attempt

\* C14 witness: after a rate-limit error and a schema-invalid completion,
\* add_tag_to_document raised on its PATCH and the function raised.
C14_Witness ==
    /\ rOutcomes = <<"ratelimit", "invalid">>
    /\ rHelperRaised = "add_tag_to_document"
    /\ Len(rDocPatches) = 1
    /\ rResult = "raised"

RateLimitedCalls == { i \in 1..Len(rOutcomes) : rOutcomes[i] = "ratelimit" }

NoRetryAfter == \A i \in 1..Len(rHeaders) : rHeaders[i] = -1

\* C16: when no rate-limit error carries a Retry-After value, the n-th sleep
\* (n = 1..5) lasts 2^(n-1) s plus a jitter in [0, 1), and so the successive
\* sleeps never decrease, whatever jitters are drawn.
C16_BackoffSleepsNonDecreasing ==
    NoRetryAfter =>
        \A i \in 1..Len(rSleeps) :
            /\ rSleeps[i] >= Pow(2, i - 1) * JitterScale
            /\ rSleeps[i] < (Pow(2, i - 1) + 1) * JitterScale
            /\ i > 1 => rSleeps[i - 1] <= rSleeps[i]

\* C16 witness: five sleeps without Retry-After, the first with the largest
\* jitter and the second with none.
C16_Witness ==
    /\ NoRetryAfter
    /\ Len(rSleeps) = 5
    /\ rSleeps[1] = 2 * JitterScale - 1
    /\ rSleeps[2] = 2 * JitterScale

\* ------------------------------------------------------------------ claims: document tags
RECURSIVE StrictlyAscending(_)
StrictlyAscending(q) ==
    Len(q) < 2 \/ (q[1] < q[2] /\ StrictlyAscending(Tail(q)))

\* C17: every PATCH of add_tag_to_document, in postprocess.py and in
\* utils/api_helpers.py, carries the ids of the tags the document had, bare or
\* inside objects, united with tag_id and without duplicates; so no tag is
\* ever dropped, a call that returns leaves the document with its former tags
\* and tag_id, and a second call sends the same payload again.
C17_AddTagIsUnion ==
    /\ aDocTagsAtStart \subseteq aDocTags
    /\ aDocTags \subseteq aDocTagsAtStart \cup {aTagId}
    /\ \A i \in 1..Len(aPatches) :
          /\ StrictlyAscending(aPatches[i].payload)
          /\ { aPatches[i].payload[k] : k \in 1..Len(aPatches[i].payload) }
                = { t.id : t \in { u \in SeqRange(aPatches[i].items) : u.kind # "noid" } }
                    \cup {aTagId}
    /\ (\E c \in DOMAIN aOutcome : aOutcome[c] = "returned")
          => aDocTags = aDocTagsAtStart \cup {aTagId}
    /\ \A i, j \in 1..Len(aPatches) :
          (i < j /\ aPatches[i].ok) => aPatches[j].payload = aPatches[i].payload

\* C17 witness: tag 5 was added twice to a document tagged {2, 3} whose tags
\* arrived as an object and a bare id; both calls sent <<2, 3, 5>>.
C17_Witness ==
    /\ apc = "done"
    /\ aDocTagsAtStart = {2, 3}
    /\ aTagId = 5
    /\ aOutcome = <<"returned", "returned">>
    /\ aPatches[1].items = <<TagItem("dict", 2), TagItem("id", 3)>>
    /\ aPatches[1].payload = <<2, 3, 5>>
    /\ aPatches[2].payload = <<2, 3, 5>>
    /\ aDocTags = {2, 3, 5}

\* ------------------------------------------------------------------ claims: list fetchers
\* the number of pages of a collection (an empty collection has one, empty)
PageCount(coll) ==
    IF coll = <<>> THEN 1 ELSE (Len(coll) + PageSize - 1) \div PageSize

\* C18: a paged fetcher requests the pages in chain order, each at most once,
\* goes on while a page names a next one, and returns, after exactly one
\* request per page, the concatenation of the pages' results in order.
C18_PagedFetchFollowsNext ==
    fFetcher \in PagedFetchers =>
        /\ \A i \in 1..Len(fRequested) : fRequested[i] = 1 + (i - 1) * PageSize
        /\ Len(fRequested) <= PageCount(fColl)
        /\ fetchPc = "loop" => (Len(fRequested) < PageCount(fColl) /\ ENABLED PagedFetch)
        /\ fetchPc = "done" => (fResults = fColl /\ Len(fRequested) = PageCount(fColl))

\* C18 witness: postprocess_all.fetch_all_documents returned five documents,
\* listed with descending ids, after one request for each of three pages.
C18_Witness ==
    /\ fFetcher = "postprocess_all.fetch_all_documents"
    /\ fetchPc = "done"
    /\ fColl = <<5, 4, 3, 2, 1>>
    /\ fResults = fColl
    /\ fRequested = <<1, 3, 5>>

\* C19: no fetcher returns after a request of its got a non-success status:
\* the failure is raised to the caller, never replaced by a partial or an
\* empty result.
C19_FetchFailurePropagates ==
    fFailed => fetchPc = "raised"

\* ------------------------------------------------------------------ claims: tag list failure
\* C20: a call of fetch_or_create_tag whose GET of the tag list failed raises
\* and returns no id, whatever its POST is answered.
C20_TagGetFailureRaises ==
    \A c \in DOMAIN tagGetFail :
        (tagGetFail[c] /\ tagOutcome[c] # "pending") =>
            (tagOutcome[c] = "raised" /\ tagResult[c] = 0)

\* ------------------------------------------------------------------ claims: clean_fields
\* What the texts of a date value stand for, written out: the two-digit day,
\* the two-digit month and the four-digit year a text gives, <<>> when it
\* gives none (numbers in the dotted and slashed formats, an abbreviated month
\* name and a two-digit year in the blank-separated one).
C22_DayText(t) ==
    IF t \in { <<"0", "1">>, <<"1">> } THEN <<"0", "1">>
    ELSE IF t = <<"2", "9">> THEN <<"2", "9">>
    ELSE <<>>
C22_MonthText(t, abbr) ==
    IF abbr THEN (IF t = <<"F", "e", "b">> THEN <<"0", "2">> ELSE <<>>)
    ELSE IF t \in { <<"0", "2">>, <<"2">> } THEN <<"0", "2">>
    ELSE IF t = <<"0", "4">> THEN <<"0", "4">>
    ELSE <<>>
C22_YearText(t, abbr) ==
    IF abbr THEN (IF t = <<"2", "3">> THEN <<"2", "0", "2", "3">>
                  ELSE IF t = <<"6", "9">> THEN <<"1", "9", "6", "9">>
                  ELSE <<>>)
    ELSE IF Len(t) = 4 THEN t
    ELSE <<>>
\* The cleaned value the first field is to have, <<>> when it is to be omitted.
C22_ExpectedDate ==
    LET abbr == dateParts.s1 = " " /\ dateParts.s2 = " "
        numeric == dateParts.s1 = dateParts.s2 /\ dateParts.s1 \in {".", "/"}
        d == C22_DayText(dateParts.d)
        m == C22_MonthText(dateParts.m, abbr)
        y == C22_YearText(dateParts.y, abbr)
    IN IF /\ abbr \/ numeric
          /\ d # <<>> /\ m # <<>> /\ y # <<>>
          /\ ~(d = <<"2", "9">> /\ m = <<"0", "2">> /\ y # <<"2", "0", "2", "4">>)
       THEN y \o <<"-">> \o m \o <<"-">> \o d
       ELSE <<>>
\* The cleaned value of a further field, <<>> when it is to be omitted.
C22_ExpectedOther(i) ==
    LET key == cfFields[i][1]
        value == cfFields[i][2]
        type == IF DictHas(field_meta, key) THEN DictGet(field_meta, key) ELSE "none"
    IN IF type = "string" THEN value
       ELSE IF type = "monetary" /\ value = TextMoney
            THEN <<"1", "2", "3", "4", ".", "5">>
       ELSE IF type = "date" /\ value = TextAbbrDate
            THEN <<"2", "0", "2", "3", "-", "0", "2", "-", "0", "1">>
       ELSE <<>>
C22_Expected(i) == IF i = 1 THEN C22_ExpectedDate ELSE C22_ExpectedOther(i)

\* C22: clean_fields re-emits a date value that one of %d.%m.%Y, %d/%m/%Y,
\* %d %b %y parses as YYYY-MM-DD; a date value none of them parses and every
\* key absent from field_meta are omitted from the result; every entry is
\* processed and the call returns (no exception ends it).
C22_DatesNormalizedOrOmitted ==
    /\ cleanPc \in {"loop", "done"} =>
         /\ \A i \in 1..Len(cfFields) :
               i < cleanIdx =>
                   IF C22_Expected(i) = <<>>
                   THEN ~DictHas(cleaned, cfFields[i][1])
                   ELSE /\ DictHas(cleaned, cfFields[i][1])
                        /\ DictGet(cleaned, cfFields[i][1]) = C22_Expected(i)
         /\ \A j \in 1..Len(cleaned) :
               \E i \in 1..Len(cfFields) : i < cleanIdx /\ cfFields[i][1] = cleaned[j][1]
    /\ cleanPc = "done" => cleanIdx = Len(cfFields) + 1

\* C22 witness: the call returned "2023-02-01" for "01.02.2023" and left out a
\* second field whose key field_meta does not hold.
C22_Witness ==
    /\ cleanPc = "done"
    /\ cfFields = << <<"date_field", <<"0", "1", ".", "0", "2", ".", "2", "0", "2", "3">> >>,
                     <<"money_field", TextAbbrDate>> >>
    /\ field_meta = << <<"date_field", "date">> >>
    /\ cleaned = << <<"date_field", <<"2", "0", "2", "3", "-", "0", "2", "-", "0", "1">> >> >>

\* The invalid date of the tests, "32/13/2023", was given and omitted.
C22_InvalidDateOmitted ==
    /\ cleanPc = "done"
    /\ cfFields[1][2] = <<"3", "2", "/", "1", "3", "/", "2", "0", "2", "3">>
    /\ cleaned = <<>>

\* ------------------------------------------------------------------ claims: field mapping
\* C23: an entry of the field mapping that populate_field_mapping_with_ids
\* left without an id is not part of the custom_fields payload and makes
\* update_document_with_json raise nothing, also when the classification
\* result has the entry's key.
C23_UnmatchedEntryExcludedWithoutError ==
    \A i \in 1..Len(field_mapping) :
        ( /\ mapPc \in {"done", "raised"}
          /\ matchedIds[i] = 0
          /\ \E k \in 1..Len(json_data) : json_data[k] = field_mapping[i].key )
        => /\ mapRaised # "KeyError"
           /\ \A k \in 1..Len(custom_fields) : custom_fields[k].key # field_mapping[i].key

\* C27: ensure_custom_fields POSTs no custom field for an entry that
\* populate_field_mapping_with_ids matched and gave an id, and when every
\* entry was matched the API holds the custom fields it held at the start.
C27_NoFieldCreatedForMatchedEntry ==
    /\ \A k \in 1..Len(mapPosts) : matchedIds[mapPosts[k].entry] = 0
    /\ (mapPc \in {"ensure", "update", "done", "raised"}
          /\ \A i \in 1..Len(matchedIds) : matchedIds[i] # 0)
        => mapApi = mapApiAtStart

\* ------------------------------------------------------------------ claims: postprocess_all
\* the fetched documents without the "gpt-correspondent" tag, in fetch order
UntaggedIds ==
    LET untagged == SelectSeq(documentsFetched,
                              LAMBDA d : gpt_tag_id \notin DocumentTagIds(d.tags))
    IN [i \in 1..Len(untagged) |-> untagged[i].id]
RunEnded == bPc \in {"done", "exit0", "exit1", "raised"}
\* no request of the run failed
NoRequestFailed ==
    /\ bPc = "raised" => bEnd # <<>>
    /\ \A k \in 1..Len(bEnd) : bEnd[k] \notin {"HTTPError", "Exception"}
GptTagExists == \E i \in 1..Len(bTags) : ApiNorm(bTags[i].name) = ApiNorm(GptTagName)

\* C21: in a run of postprocess_all.main without a failed request, the
\* processor is called exactly once, in fetch order, for each fetched document
\* whose tags do not include the id of the "gpt-correspondent" tag and for no
\* other document; when the tag does not exist the run exits with status 1
\* and no document is processed.
C21_EachUntaggedDocumentProcessedOnce ==
    /\ (RunEnded /\ NoRequestFailed /\ gpt_tag_id # 0) => bCalls = UntaggedIds
    /\ (RunEnded /\ NoRequestFailed /\ ~GptTagExists) => (bPc = "exit1" /\ bCalls = <<>>)

\* C28: a call of postprocess.main whose AI response has status "no_match",
\* and none of whose requests fails, returns normally and leaves the document
\* with the "gpt-correspondent-unable-to-determine" tag and the correspondent
\* it had.
C28_NoMatchTagsDocumentAndReturns ==
    \A k \in 1..Len(bEnd) :
        ( /\ bInputs[bCalls[k]].ocr
          /\ bInputs[bCalls[k]].ai.status = "no_match"
          /\ bEnd[k] \notin {"HTTPError", "Exception"} )
        => /\ bEnd[k] = "returned"
           /\ \E i \in 1..Len(bTags) :
                 bTags[i].name = UnableTagName /\ bTags[i].id \in bDocs[bCalls[k]].tags
           /\ bDocs[bCalls[k]].correspondent = bDocsAtStart[bCalls[k]].correspondent

\* C29: a document for which postprocess.main returned normally on a response
\* of status "match" or "suggest_new" carries the "gpt-correspondent" tag.
C29_ProcessedDocumentCarriesGptTag ==
    \A k \in 1..Len(bReturned) :
        bInputs[bReturned[k]].ai.status \in {"match", "suggest_new"}
        => \E i \in 1..Len(bTags) :
              bTags[i].name = GptTagName /\ bTags[i].id \in bDocs[bReturned[k]].tags

\* a document postprocess.main cannot process
Unprocessable(id) ==
    \/ ~bInputs[id].ocr
    \/ bInputs[id].ai.status \notin {"match", "suggest_new", "no_match"}
    \/ bInputs[id].ai.status \in {"match", "suggest_new"} /\ bInputs[id].ai.correspondent = 0

\* C30: when a run of postprocess_all.main without a failed request has
\* ended, every untagged document that follows, in fetch order, a document
\* that could not be processed has been processed.
C30_UnprocessableDocumentDoesNotStopRun ==
    (RunEnded /\ NoRequestFailed) =>
        \A i, j \in 1..Len(UntaggedIds) :
            ( /\ i < j
              /\ Unprocessable(UntaggedIds[i])
              /\ \E k \in 1..Len(bCalls) : bCalls[k] = UntaggedIds[i] )
            => \E k \in 1..Len(bCalls) : bCalls[k] = UntaggedIds[j]
====
